---- MODULE Spec2Model ----
(***************************************************************************)
(* External-tool execution and result-normalisation engine of forensicWeb: *)
(* backend/core/volatility_runner.py and backend/core/artifact_processor.py*)
(*                                                                         *)
(* Text is modelled as a sequence of one-character strings, an optional    *)
(* value (Python None / a value) as a sequence of length 0 or 1, and time  *)
(* as a discrete clock in seconds.                                         *)
(***************************************************************************)
EXTENDS Integers, Sequences, FiniteSets, TLC

(***************************************************************************)
(* Bounds of the model.                                                    *)
(***************************************************************************)
\* largest number of items submitted to one batch call
MaxItems == 2
\* largest max_concurrent argument given to a batch call
MaxConcurrent == 2
\* the timeout (seconds) configured for an execution, scaled down
TimeoutSeconds == 1

(***************************************************************************)
(* Optional values.                                                        *)
(***************************************************************************)
None == <<>>
Some(v) == <<v>>
IsSome(o) == Len(o) = 1
Get(o) == o[1]

(***************************************************************************)
(* Text helpers (Python str operations used by the code).                  *)
(***************************************************************************)
\* s[:n]
Take(s, n) == SubSeq(s, 1, IF Len(s) < n THEN Len(s) ELSE n)

\* pattern in s
Contains(s, pattern) ==
    \E k \in 0..(Len(s) - Len(pattern)) :
        \A j \in 1..Len(pattern) : s[k + j] = pattern[j]

IsSpace(c) == c \in {" ", "\n", "\t", "\r"}

RECURSIVE LStrip(_)
LStrip(s) == IF s # <<>> /\ IsSpace(Head(s)) THEN LStrip(Tail(s)) ELSE s

RECURSIVE RStrip(_)
RStrip(s) ==
    IF s # <<>> /\ IsSpace(s[Len(s)]) THEN RStrip(SubSeq(s, 1, Len(s) - 1)) ELSE s

\* s.strip()
Strip(s) == LStrip(RStrip(s))

\* s.split('\n'): the pieces between newline characters
RECURSIVE SplitLines(_)
SplitLines(s) ==
    IF \A k \in 1..Len(s) : s[k] # "\n"
    THEN <<s>>
    ELSE LET k == CHOOSE k \in 1..Len(s) :
                      s[k] = "\n" /\ \A j \in 1..(k - 1) : s[j] # "\n"
         IN  <<SubSeq(s, 1, k - 1)>> \o SplitLines(SubSeq(s, k + 1, Len(s)))

RECURSIVE SelectNonEmpty(_)
SelectNonEmpty(ls) ==
    IF ls = <<>> THEN <<>>
    ELSE IF Head(ls) = <<>> THEN SelectNonEmpty(Tail(ls))
         ELSE <<Head(ls)>> \o SelectNonEmpty(Tail(ls))

\* str(n) for a small natural number
RECURSIVE Digits(_)
Digits(n) ==
    LET d == <<"0", "1", "2", "3", "4", "5", "6", "7", "8", "9">>
    IN  IF n < 10 THEN <<d[n + 1]>> ELSE Digits(n \div 10) \o <<d[(n % 10) + 1]>>

\* str(b) of a bytes object: its repr
StrOfBytes(b) == <<"b", "'">> \o b \o <<"'">>

(***************************************************************************)
(* PluginStatus                                                            *)
(***************************************************************************)
RUNNING == "running"
SUCCESS == "success"
FAILED == "failed"
TIMEOUT == "timeout"

(***************************************************************************)
(* Fixed message texts of the code.                                        *)
(***************************************************************************)
UnknownError == <<"U", "n", "k", "n", "o", "w", "n", " ", "e", "r", "r", "o", "r">>
ExecutionFailed == <<"E", "x", "e", "c", "u", "t", "i", "o", "n", " ", "f", "a", "i", "l", "e", "d">>
TimedOutPrefix == <<"E", "x", "e", "c", "u", "t", "i", "o", "n", " ", "t", "i", "m", "e", "d", " ", "o", "u", "t", " ", "a", "f", "t", "e", "r", " ">>
AnalysisTimedOutPrefix == <<"A", "n", "a", "l", "y", "s", "i", "s", " ", "t", "i", "m", "e", "d", " ", "o", "u", "t", " ", "a", "f", "t", "e", "r", " ">>
BinwalkDisabled == <<"B", "i", "n", "w", "a", "l", "k", " ", "i", "s", " ", "d", "i", "s", "a", "b", "l", "e", "d">>
ExiftoolDisabled == <<"E", "x", "i", "f", "t", "o", "o", "l", " ", "i", "s", " ", "d", "i", "s", "a", "b", "l", "e", "d">>

\* the diagnostic substrings _extract_error_message looks for
error_patterns == <<
    <<"U", "n", "a", "b", "l", "e", " ", "t", "o", " ", "v", "a", "l", "i", "d", "a", "t", "e", " ", "t", "h", "e", " ", "p", "l", "u", "g", "i", "n", " ", "r", "e", "q", "u", "i", "r", "e", "m", "e", "n", "t", "s">>,
    <<"N", "o", " ", "s", "u", "c", "h", " ", "f", "i", "l", "e", " ", "o", "r", " ", "d", "i", "r", "e", "c", "t", "o", "r", "y">>,
    <<"U", "n", "a", "b", "l", "e", " ", "t", "o", " ", "d", "e", "t", "e", "r", "m", "i", "n", "e", " ", "s", "y", "m", "b", "o", "l", " ", "t", "a", "b", "l", "e">>,
    <<"U", "n", "s", "a", "t", "i", "s", "f", "i", "e", "d", " ", "r", "e", "q", "u", "i", "r", "e", "m", "e", "n", "t", " ", "p", "l", "u", "g", "i", "n", "s">>,
    <<"N", "o", " ", "v", "a", "l", "i", "d", " ", "p", "r", "o", "f", "i", "l", "e", " ", "f", "o", "u", "n", "d">> >>

\* stderr[:500]
ErrorMessageLimit == 500

(***************************************************************************)
(* The environment: what an external process can do.                       *)
(***************************************************************************)
\* plugin names a caller may submit; the first two differ only in '.'/'_'
PluginName(k) ==
    IF k = 1 THEN <<"p", ".", "x">>
    ELSE IF k = 2 THEN <<"p", "_", "x">>
    ELSE [j \in 1..(k - 2) |-> "q"]

PluginNames == {PluginName(k) : k \in 1..MaxItems}

\* content of a file: absent, not decodable as UTF-8, or a sequence of lines
File(lines) == [exists |-> TRUE, utf8 |-> TRUE, lines |-> lines]
NoFile == [exists |-> FALSE, utf8 |-> TRUE, lines |-> <<>>]
\* a file with one JSON line and one line holding a byte that is not UTF-8
BadEncoding == [exists |-> TRUE, utf8 |-> FALSE, lines |-> << <<"1">>, <<"\\xff">> >>]
EmptyFile == File(<<>>)
OneRecord == File(<< <<"1">> >>)

StderrLines == <<"\n", " ", "e", "1", " ", "\n", "e", "2">>
\* nothing, a long text with an error pattern on its second line, blank
\* lines, several lines, and one line one character longer than the limit of
\* an error message
StderrSamples ==
    {<<>>,
     <<"w", "\n">> \o error_patterns[2] \o [j \in 1..ErrorMessageLimit |-> "x"],
     <<" ", "\n", "\n">>, StderrLines,
     [j \in 1..(ErrorMessageLimit + 1) |-> "e"]}

\* text of the OSError raised when the executable cannot be launched or a
\* directory cannot be created
LaunchError == <<"[", "E", "r", "r", "n", "o", " ", "2", "]">>

(***************************************************************************)
(* Volatility3Runner: pure parts.  A PluginExecutionResult is modelled     *)
(* without its timestamps started_at and completed_at; their difference is *)
(* execution_time_seconds.                                                 *)
(***************************************************************************)
\* output_dir / f"{plugin_name.replace('.', '_')}.json"
OutputFile(plugin_name) ==
    [j \in 1..Len(plugin_name) |->
        IF plugin_name[j] = "." THEN "_" ELSE plugin_name[j]]
    \o <<".", "j", "s", "o", "n">>

\* JSON values
JNum(n) == [type |-> "number", num |-> n, str |-> <<>>, items |-> <<>>, fields |-> <<>>]
JStr(t) == [type |-> "string", num |-> 0, str |-> t, items |-> <<>>, fields |-> <<>>]
JArr(items) == [type |-> "array", num |-> 0, str |-> <<>>, items |-> items, fields |-> <<>>]
\* an object: its (key, value) pairs in order
JObj(fields) == [type |-> "object", num |-> 0, str |-> <<>>, items |-> <<>>, fields |-> fields]

\* the JSON texts of the model
JsonOne == <<"1">>
JsonEmptyObject == <<"{", "}">>
JsonEmptyArray == <<"[", "]">>
JsonNumberArray == <<"[", "1", "]">>
JsonObject == <<"{", "\"", "a", "\"", ":", "1", "}">>
JsonExifOne == <<"[", "{", "\"", "F", "i", "l", "e", "T", "y", "p", "e", "\"", ":", "\"", "P", "N", "G", "\"", "}", "]">>
JsonExifTwo == <<"[", "{", "\"", "M", "I", "M", "E", "T", "y", "p", "e", "\"", ":", "\"", "a", "/", "b", "\"", "}", ",", "{", "\"", "F", "i", "l", "e", "T", "y", "p", "e", "\"", ":", "\"", "X", "\"", "}", "]">>
JsonExifEmptyType == <<"[", "{", "\"", "F", "i", "l", "e", "T", "y", "p", "e", "\"", ":", "\"", "\"", ",", "\"", "M", "I", "M", "E", "T", "y", "p", "e", "\"", ":", "\"", "a", "/", "b", "\"", "}", "]">>

\* json.loads: the value each JSON text of the model denotes; any other text
\* raises JSONDecodeError
JsonTable == <<
    <<JsonOne, JNum(1)>>,
    <<JsonEmptyObject, JObj(<<>>)>>,
    <<JsonEmptyArray, JArr(<<>>)>>,
    <<JsonNumberArray, JArr(<<JNum(1)>>)>>,
    <<JsonObject, JObj(<< <<"a", JNum(1)>> >>)>>,
    <<JsonExifOne, JArr(<<JObj(<< <<"FileType", JStr(<<"P", "N", "G">>)>> >>)>>)>>,
    <<JsonExifTwo, JArr(<<JObj(<< <<"MIMEType", JStr(<<"a", "/", "b">>)>> >>),
                          JObj(<< <<"FileType", JStr(<<"X">>)>> >>)>>)>>,
    <<JsonExifEmptyType,
      JArr(<<JObj(<< <<"FileType", JStr(<<>>)>>,
                     <<"MIMEType", JStr(<<"a", "/", "b">>)>> >>)>>)>> >>

JsonDecodable(text) == \E k \in 1..Len(JsonTable) : JsonTable[k][1] = Strip(text)
JsonLoads(text) ==
    JsonTable[CHOOSE k \in 1..Len(JsonTable) : JsonTable[k][1] = Strip(text)][2]

\* the loop of _parse_json_output over the lines of the file
RECURSIVE ParseRows(_)
ParseRows(lines) ==
    IF lines = <<>> THEN <<>>
    ELSE LET line == Strip(Head(lines))
         IN  IF line # <<>> /\ JsonDecodable(line)
             THEN <<JsonLoads(line)>> \o ParseRows(Tail(lines))
             ELSE ParseRows(Tail(lines))

\* _parse_json_output: (parsed_data, row_count) for the content of output_file
parse_json_output(content) ==
    IF ~content.exists THEN [parsed_data |-> None, row_count |-> 0]
    ELSE IF ~content.utf8 THEN [parsed_data |-> None, row_count |-> 0]
    ELSE IF content.lines = <<>> THEN [parsed_data |-> None, row_count |-> 0]
    ELSE LET parsed_rows == ParseRows(content.lines)
         IN  [parsed_data |-> Some(parsed_rows), row_count |-> Len(parsed_rows)]

\* mutant: the message is always taken from the first non-blank line
extract_error_message_FirstLine(stderr) ==
    IF stderr = <<>> THEN UnknownError
    ELSE LET pieces == SplitLines(stderr)
             lines == SelectNonEmpty([k \in 1..Len(pieces) |-> Strip(pieces[k])])
         IN  IF lines # <<>> THEN Take(lines[1], ErrorMessageLimit)
             ELSE ExecutionFailed

\* _extract_error_message
extract_error_message(stderr) ==
    IF stderr = <<>> THEN UnknownError
    ELSE IF \E p \in 1..Len(error_patterns) : Contains(stderr, error_patterns[p])
         THEN Take(stderr, ErrorMessageLimit)
         ELSE LET pieces == SplitLines(stderr)
                  lines == SelectNonEmpty([k \in 1..Len(pieces) |-> Strip(pieces[k])])
              IN  IF lines # <<>> THEN Take(lines[1], ErrorMessageLimit)
                  ELSE ExecutionFailed

\* lines 151-157: status of a completed synchronous execution
SyncStatus(returncode, parsed_data) ==
    IF returncode = 0 /\ parsed_data # None THEN SUCCESS ELSE FAILED

\* line 252: status of a completed asynchronous execution
AsyncStatus(returncode, parsed_data) ==
    IF returncode = 0 THEN SUCCESS ELSE FAILED

\* mutant: the error message is extracted only from a non-empty stderr
execute_plugin_completed_NoMessage(plugin_name, started_at, completed_at, returncode, stderr, fs) ==
    LET output_file == OutputFile(plugin_name)
        parsed == parse_json_output(fs[output_file])
        status == IF returncode = 0 /\ parsed.parsed_data # None THEN SUCCESS ELSE FAILED
    IN  [plugin_name |-> plugin_name,
         status |-> status,
         execution_time_seconds |-> completed_at - started_at,
         row_count |-> parsed.row_count,
         output_json_path |-> IF fs[output_file].exists THEN Some(output_file) ELSE None,
         parsed_data |-> parsed.parsed_data,
         error_message |-> IF status = SUCCESS \/ stderr = <<>> THEN None
                           ELSE Some(extract_error_message(stderr)),
         stderr |-> IF stderr # <<>> THEN Some(stderr) ELSE None,
         returncode |-> returncode]

\* execute_plugin, the process exited within the timeout (lines 145-171)
execute_plugin_completed(plugin_name, started_at, completed_at, returncode, stderr, fs) ==
    LET output_file == OutputFile(plugin_name)
        parsed == parse_json_output(fs[output_file])
        status == SyncStatus(returncode, parsed.parsed_data)
    IN  [plugin_name |-> plugin_name,
         status |-> status,
         execution_time_seconds |-> completed_at - started_at,
         row_count |-> parsed.row_count,
         output_json_path |-> IF fs[output_file].exists THEN Some(output_file) ELSE None,
         parsed_data |-> parsed.parsed_data,
         error_message |-> IF status = SUCCESS THEN None
                           ELSE Some(extract_error_message(stderr)),
         stderr |-> IF stderr # <<>> THEN Some(stderr) ELSE None,
         returncode |-> returncode]

\* execute_plugin_async, the process exited within the timeout (lines 246-269)
execute_plugin_async_completed(plugin_name, started_at, completed_at, returncode, stderr, fs) ==
    LET output_file == OutputFile(plugin_name)
        parsed == parse_json_output(fs[output_file])
        status == AsyncStatus(returncode, parsed.parsed_data)
    IN  [plugin_name |-> plugin_name,
         status |-> status,
         execution_time_seconds |-> completed_at - started_at,
         row_count |-> parsed.row_count,
         output_json_path |-> IF fs[output_file].exists THEN Some(output_file) ELSE None,
         parsed_data |-> parsed.parsed_data,
         error_message |-> IF status = SUCCESS THEN None
                           ELSE Some(extract_error_message(stderr)),
         stderr |-> IF stderr # <<>> THEN Some(stderr) ELSE None,
         returncode |-> returncode]

\* mutant: the timeout handler parses the output file
execute_plugin_timeout_Parsed(plugin_name, started_at, completed_at, timeout_seconds, e_stderr, fs) ==
    LET parsed == parse_json_output(fs[OutputFile(plugin_name)])
    IN  [plugin_name |-> plugin_name,
         status |-> TIMEOUT,
         execution_time_seconds |-> timeout_seconds,
         row_count |-> parsed.row_count,
         output_json_path |-> None,
         parsed_data |-> parsed.parsed_data,
         error_message |-> Some(TimedOutPrefix \o Digits(timeout_seconds) \o <<"s">>),
         stderr |-> IF e_stderr # <<>> THEN Some(StrOfBytes(e_stderr)) ELSE None,
         returncode |-> -1]

\* execute_plugin, except subprocess.TimeoutExpired (lines 173-191);
\* e_stderr is the stderr captured until the kill, a bytes object
execute_plugin_timeout(plugin_name, started_at, completed_at, timeout_seconds, e_stderr, fs) ==
    [plugin_name |-> plugin_name,
     status |-> TIMEOUT,
     execution_time_seconds |-> timeout_seconds,
     row_count |-> 0,
     output_json_path |-> None,
     parsed_data |-> None,
     error_message |-> Some(TimedOutPrefix \o Digits(timeout_seconds) \o <<"s">>),
     stderr |-> IF e_stderr # <<>> THEN Some(StrOfBytes(e_stderr)) ELSE None,
     returncode |-> -1]

\* execute_plugin_async, except subprocess.TimeoutExpired (lines 271-284)
execute_plugin_async_timeout(plugin_name, started_at, completed_at, timeout_seconds, e_stderr, fs) ==
    [plugin_name |-> plugin_name,
     status |-> TIMEOUT,
     execution_time_seconds |-> timeout_seconds,
     row_count |-> 0,
     output_json_path |-> None,
     parsed_data |-> None,
     error_message |-> Some(TimedOutPrefix \o Digits(timeout_seconds) \o <<"s">>),
     stderr |-> None,
     returncode |-> -1]

\* mutant: the exception handler leaves the status at RUNNING
execute_plugin_exception_Running(plugin_name, started_at, completed_at, e) ==
    [plugin_name |-> plugin_name,
     status |-> RUNNING,
     execution_time_seconds |-> completed_at - started_at,
     row_count |-> 0,
     output_json_path |-> None,
     parsed_data |-> None,
     error_message |-> Some(e),
     stderr |-> None,
     returncode |-> -1]

\* execute_plugin / execute_plugin_async, except Exception as e
\* (lines 193-207 and 286-300); e is str(e)
execute_plugin_exception(plugin_name, started_at, completed_at, e) ==
    [plugin_name |-> plugin_name,
     status |-> FAILED,
     execution_time_seconds |-> completed_at - started_at,
     row_count |-> 0,
     output_json_path |-> None,
     parsed_data |-> None,
     error_message |-> Some(e),
     stderr |-> None,
     returncode |-> -1]

(***************************************************************************)
(* BinwalkAnalyzer: pure parts.  A BinwalkResult is modelled without its   *)
(* timestamp analyzed_at.                                                  *)
(***************************************************************************)
\* s.startswith(prefix)
StartsWith(s, prefix) ==
    Len(s) >= Len(prefix) /\ SubSeq(s, 1, Len(prefix)) = prefix

\* s.split(None, maxsplit): fields separated by runs of whitespace, the
\* last one holding the rest of the text
RECURSIVE SplitWs(_, _)
SplitWs(s, maxsplit) ==
    LET t == LStrip(s)
    IN  IF t = <<>> THEN <<>>
        ELSE IF maxsplit = 0 THEN <<t>>
        ELSE IF \A k \in 1..Len(t) : ~IsSpace(t[k]) THEN <<t>>
        ELSE LET k == CHOOSE k \in 1..Len(t) :
                          IsSpace(t[k]) /\ \A j \in 1..(k - 1) : ~IsSpace(t[j])
             IN  <<SubSeq(t, 1, k - 1)>>
                 \o SplitWs(SubSeq(t, k + 1, Len(t)), maxsplit - 1)

IsDigit(c) == c \in {"0", "1", "2", "3", "4", "5", "6", "7", "8", "9"}
DigitValue(c) ==
    LET d == <<"0", "1", "2", "3", "4", "5", "6", "7", "8", "9">>
    IN  (CHOOSE k \in 1..10 : d[k] = c) - 1

RECURSIVE DigitsValue(_, _)
DigitsValue(s, acc) ==
    IF s = <<>> THEN acc
    ELSE IF Head(s) = "_" THEN DigitsValue(Tail(s), acc)
    ELSE DigitsValue(Tail(s), 10 * acc + DigitValue(Head(s)))

\* int(text): an optional sign, then digits, single underscores allowed
\* between digits; anything else raises ValueError (ok = FALSE)
PyInt(text) ==
    LET signed == text # <<>> /\ Head(text) \in {"+", "-"}
        body == IF signed THEN Tail(text) ELSE text
        wellFormed ==
            /\ body # <<>>
            /\ \A k \in 1..Len(body) : IsDigit(body[k]) \/ body[k] = "_"
            /\ IsDigit(body[1]) /\ IsDigit(body[Len(body)])
            /\ \A k \in 1..(Len(body) - 1) : ~(body[k] = "_" /\ body[k + 1] = "_")
    IN  IF ~wellFormed THEN [ok |-> FALSE, val |-> 0]
        ELSE [ok |-> TRUE,
              val |-> IF signed /\ Head(text) = "-"
                      THEN 0 - DigitsValue(body, 0) ELSE DigitsValue(body, 0)]

\* mutant: a first field that is no integer gives a finding at offset 0
ParseBinwalkLine_AnyOffset(raw) ==
    LET line == Strip(raw)
    IN  IF line = <<>> \/ StartsWith(line, <<"D", "E", "C", "I", "M", "A", "L">>)
               \/ StartsWith(line, <<"-", "-", "-">>)
        THEN <<>>
        ELSE LET parts == SplitWs(line, 2)
             IN  IF Len(parts) >= 3
                 THEN << [offset |-> PyInt(parts[1]).val,
                          offset_hex |-> parts[2],
                          description |-> parts[3]] >>
                 ELSE <<>>

\* the body of the loop of _parse_binwalk_output for one line: the findings
\* it appends (none or one)
ParseBinwalkLine(raw) ==
    LET line == Strip(raw)
    IN  IF line = <<>> \/ StartsWith(line, <<"D", "E", "C", "I", "M", "A", "L">>)
               \/ StartsWith(line, <<"-", "-", "-">>)
        THEN <<>>
        ELSE LET parts == SplitWs(line, 2)
             IN  IF Len(parts) >= 3 /\ PyInt(parts[1]).ok
                 THEN << [offset |-> PyInt(parts[1]).val,
                          offset_hex |-> parts[2],
                          description |-> parts[3]] >>
                 ELSE <<>>

RECURSIVE ParseBinwalkLines(_)
ParseBinwalkLines(lines) ==
    IF lines = <<>> THEN <<>>
    ELSE ParseBinwalkLine(Head(lines)) \o ParseBinwalkLines(Tail(lines))

\* _parse_binwalk_output
parse_binwalk_output(output) == ParseBinwalkLines(SplitLines(output))

\* Path(file_path).stem: the final component without its last suffix
PathName(path) ==
    IF \A k \in 1..Len(path) : path[k] # "/" THEN path
    ELSE LET k == CHOOSE k \in 1..Len(path) :
                      path[k] = "/" /\ \A j \in (k + 1)..Len(path) : path[j] # "/"
         IN  SubSeq(path, k + 1, Len(path))

Stem(path) ==
    LET name == PathName(path)
    IN  IF \A k \in 2..Len(name) : name[k] # "."
        THEN name
        ELSE LET k == CHOOSE k \in 2..Len(name) :
                          name[k] = "." /\ \A j \in (k + 1)..Len(name) : name[j] # "."
             IN  IF k = Len(name) THEN name ELSE SubSeq(name, 1, k - 1)

\* extraction_dir / f"{file_path.stem}_binwalk" (line 121)
ExtractDir(file_path) ==
    Stem(file_path) \o <<"_", "b", "i", "n", "w", "a", "l", "k">>

\* a file that binwalk -e may leave in an extraction directory
CarvedFile(dir) == dir \o <<"/", "0">>

\* stderr.decode('utf-8'): raises UnicodeDecodeError on undecodable bytes;
\* such bytes are the character "\xff" of the model
StrictDecodable(bytes) == \A k \in 1..Len(bytes) : bytes[k] # "\\xff"
UnicodeDecodeError == <<"u", "t", "f", "-", "8">>

\* stdout.decode('utf-8', errors='replace')
DecodeReplace(bytes) ==
    [k \in 1..Len(bytes) |-> IF bytes[k] = "\\xff" THEN "\\ufffd" ELSE bytes[k]]

\* analyze_file, tool disabled (lines 107-116)
analyze_file_disabled(file_path) ==
    [file_path |-> file_path,
     success |-> FALSE,
     signatures_found |-> <<>>,
     extracted_files |-> {},
     error_message |-> Some(BinwalkDisabled),
     execution_time_seconds |-> 0]

\* the regular files under extract_dir (lines 154-157)
ExtractedFiles(extract, extract_dir, fs) ==
    IF extract THEN {p \in {CarvedFile(extract_dir)} : fs[p].exists} ELSE {}

\* analyze_file, except Exception as e (lines 181-191)
analyze_file_exception(file_path, started_at, completed_at, e) ==
    [file_path |-> file_path,
     success |-> FALSE,
     signatures_found |-> <<>>,
     extracted_files |-> {},
     error_message |-> Some(e),
     execution_time_seconds |-> completed_at - started_at]

\* analyze_file, the process exited within the timeout (lines 147-167);
\* a stderr that is not UTF-8 makes the strict decode of line 165 raise
analyze_file_completed(file_path, extract, started_at, completed_at, returncode, stderr, stdout, fs) ==
    IF returncode # 0 /\ ~StrictDecodable(stderr)
    THEN analyze_file_exception(file_path, started_at, completed_at, UnicodeDecodeError)
    ELSE [file_path |-> file_path,
          success |-> returncode = 0,
          signatures_found |-> parse_binwalk_output(DecodeReplace(stdout)),
          extracted_files |-> ExtractedFiles(extract, ExtractDir(file_path), fs),
          error_message |-> IF returncode = 0 THEN None
                            ELSE Some(Take(stderr, ErrorMessageLimit)),
          execution_time_seconds |-> completed_at - started_at]

\* analyze_file, except asyncio.TimeoutError (lines 169-179)
analyze_file_timeout(file_path, started_at, completed_at, timeout_seconds) ==
    [file_path |-> file_path,
     success |-> FALSE,
     signatures_found |-> <<>>,
     extracted_files |-> {},
     error_message |-> Some(AnalysisTimedOutPrefix \o Digits(timeout_seconds) \o <<"s">>),
     execution_time_seconds |-> timeout_seconds]

(***************************************************************************)
(* ExiftoolAnalyzer: pure parts.  An ExiftoolResult is modelled without    *)
(* its timestamp analyzed_at.                                              *)
(***************************************************************************)
\* bool(v) for a JSON value
Truthy(v) ==
    \/ v.type = "number" /\ v.num # 0
    \/ v.type = "string" /\ v.str # <<>>
    \/ v.type = "array" /\ v.items # <<>>
    \/ v.type = "object" /\ v.fields # <<>>

\* d.get(key) for a JSON object
DictGet(d, key) ==
    IF \E k \in 1..Len(d.fields) : d.fields[k][1] = key
    THEN Some(d.fields[CHOOSE k \in 1..Len(d.fields) : d.fields[k][1] = key][2])
    ELSE None

\* metadata.get('FileType') or metadata.get('MIMEType')
FileTypeOf(metadata) ==
    LET a == DictGet(metadata, "FileType")
        b == DictGet(metadata, "MIMEType")
    IN  IF IsSome(a) /\ Truthy(Get(a)) THEN Some(Get(a).str)
        ELSE IF IsSome(b) THEN Some(Get(b).str) ELSE None

TypeError == <<"T", "y", "p", "e", "E", "r", "r", "o", "r">>
KeyError == <<"0">>
AttributeError == <<"g", "e", "t">>

\* mutant: the last element of the array becomes the metadata
ExifParse_Last(stdout) ==
    LET text == DecodeReplace(stdout)
        empty == [raises |-> FALSE, e |-> <<>>, metadata |-> JObj(<<>>), file_type |-> None]
        Raised(e) == [raises |-> TRUE, e |-> e, metadata |-> JObj(<<>>), file_type |-> None]
    IN  IF ~JsonDecodable(text) THEN empty
        ELSE LET json_data == JsonLoads(text)
                 last == json_data.items[Len(json_data.items)]
             IN  IF ~Truthy(json_data) THEN empty
                 ELSE IF json_data.type = "number" THEN Raised(TypeError)
                 ELSE IF json_data.type = "object" THEN Raised(KeyError)
                 ELSE IF json_data.type = "string" THEN Raised(AttributeError)
                 ELSE IF last.type # "object" THEN Raised(AttributeError)
                 ELSE [raises |-> FALSE, e |-> <<>>,
                       metadata |-> last,
                       file_type |-> FileTypeOf(last)]

\* lines 358-372 for returncode 0: the metadata and file_type, or the
\* exception the statements raise
ExifParse(stdout) ==
    LET text == DecodeReplace(stdout)
        empty == [raises |-> FALSE, e |-> <<>>, metadata |-> JObj(<<>>), file_type |-> None]
        Raise(e) == [raises |-> TRUE, e |-> e, metadata |-> JObj(<<>>), file_type |-> None]
    IN  IF ~JsonDecodable(text) THEN empty
        ELSE LET json_data == JsonLoads(text)
             IN  IF ~Truthy(json_data) THEN empty
                 ELSE IF json_data.type = "number" THEN Raise(TypeError)
                 ELSE IF json_data.type = "object" THEN Raise(KeyError)
                 ELSE IF json_data.type = "string" THEN Raise(AttributeError)
                 ELSE IF json_data.items[1].type # "object" THEN Raise(AttributeError)
                 ELSE [raises |-> FALSE, e |-> <<>>,
                       metadata |-> json_data.items[1],
                       file_type |-> FileTypeOf(json_data.items[1])]

\* extract_metadata, tool disabled (lines 317-326)
extract_metadata_disabled(file_path) ==
    [file_path |-> file_path,
     success |-> FALSE,
     metadata |-> JObj(<<>>),
     file_type |-> None,
     error_message |-> Some(ExiftoolDisabled),
     execution_time_seconds |-> 0]

\* extract_metadata, except Exception as e (lines 396-406)
extract_metadata_exception(file_path, started_at, completed_at, e) ==
    [file_path |-> file_path,
     success |-> FALSE,
     metadata |-> JObj(<<>>),
     file_type |-> None,
     error_message |-> Some(e),
     execution_time_seconds |-> completed_at - started_at]

\* extract_metadata, the process exited within the timeout (lines 354-382)
extract_metadata_completed(file_path, started_at, completed_at, returncode, stderr, stdout) ==
    LET parsed == IF returncode = 0 THEN ExifParse(stdout)
                  ELSE [raises |-> FALSE, e |-> <<>>, metadata |-> JObj(<<>>),
                        file_type |-> None]
    IN  IF parsed.raises
        THEN extract_metadata_exception(file_path, started_at, completed_at, parsed.e)
        ELSE IF returncode # 0 /\ ~StrictDecodable(stderr)
        THEN extract_metadata_exception(file_path, started_at, completed_at,
                                        UnicodeDecodeError)
        ELSE [file_path |-> file_path,
              success |-> returncode = 0,
              metadata |-> parsed.metadata,
              file_type |-> parsed.file_type,
              error_message |-> IF returncode = 0 THEN None
                                ELSE Some(Take(stderr, ErrorMessageLimit)),
              execution_time_seconds |-> completed_at - started_at]

\* extract_metadata, except asyncio.TimeoutError (lines 384-394)
extract_metadata_timeout(file_path, started_at, completed_at, timeout_seconds) ==
    [file_path |-> file_path,
     success |-> FALSE,
     metadata |-> JObj(<<>>),
     file_type |-> None,
     error_message |-> Some(AnalysisTimedOutPrefix \o Digits(timeout_seconds) \o <<"s">>),
     execution_time_seconds |-> timeout_seconds]

(***************************************************************************)
(* ProfileDetector: pure parts.  confidence is counted in tenths.          *)
(***************************************************************************)
\* output.lower()
Lower(s) ==
    LET UpperCase == <<"A", "B", "C", "D", "E", "F", "G", "H", "I", "J", "K", "L", "M", "N", "O", "P", "Q", "R", "S", "T", "U", "V", "W", "X", "Y", "Z">>
        LowerCase == <<"a", "b", "c", "d", "e", "f", "g", "h", "i", "j", "k", "l", "m", "n", "o", "p", "q", "r", "s", "t", "u", "v", "w", "x", "y", "z">>
    IN  [k \in 1..Len(s) |->
            IF \E j \in 1..26 : UpperCase[j] = s[k]
            THEN LowerCase[CHOOSE j \in 1..26 : UpperCase[j] = s[k]]
            ELSE s[k]]

\* mutant: the macOS keywords are tested before 'linux'
parse_banners_output_MacFirst(output) ==
    LET output_lower == Lower(output)
    IN  IF Contains(output_lower, <<"w", "i", "n", "d", "o", "w", "s">>)
           \/ Contains(output_lower, <<"m", "i", "c", "r", "o", "s", "o", "f", "t">>)
        THEN "Windows"
        ELSE IF Contains(output_lower, <<"d", "a", "r", "w", "i", "n">>)
                \/ Contains(output_lower, <<"m", "a", "c", "o", "s">>)
        THEN "macOS"
        ELSE IF Contains(output_lower, <<"l", "i", "n", "u", "x">>) THEN "Linux"
        ELSE "Unknown"

\* _parse_banners_output
parse_banners_output(output) ==
    LET output_lower == Lower(output)
    IN  IF Contains(output_lower, <<"w", "i", "n", "d", "o", "w", "s">>)
           \/ Contains(output_lower, <<"m", "i", "c", "r", "o", "s", "o", "f", "t">>)
        THEN "Windows"
        ELSE IF Contains(output_lower, <<"l", "i", "n", "u", "x">>) THEN "Linux"
        ELSE IF Contains(output_lower, <<"d", "a", "r", "w", "i", "n">>)
                \/ Contains(output_lower, <<"m", "a", "c", "o", "s">>)
        THEN "macOS"
        ELSE "Unknown"

\* mutant: the confidence does not depend on the category found
detect_profile_completed_Fixed(stdout) ==
    [os |-> parse_banners_output(DecodeReplace(stdout)),
     profile |-> "auto",
     confidence |-> 8,
     method |-> "banners"]

\* detect_profile, the process finished within the timeout (lines 470-480)
detect_profile_completed(stdout) ==
    LET os_type == parse_banners_output(DecodeReplace(stdout))
    IN  [os |-> os_type,
         profile |-> "auto",
         confidence |-> IF os_type # "Unknown" THEN 8 ELSE 3,
         method |-> "banners"]

\* detect_profile, except Exception (lines 482-489)
detect_profile_exception ==
    [os |-> "Unknown", profile |-> "auto", confidence |-> 0, method |-> "fallback"]

(***************************************************************************)
(* The inputs of the analyzers                                             *)
(***************************************************************************)
\* artifact files a caller may submit; the first two share the stem "f"
FilePath(k) ==
    IF k = 1 THEN <<"a", "/", "f", ".", "x">>
    ELSE IF k = 2 THEN <<"b", "/", "f", ".", "y">>
    ELSE [j \in 1..(k - 2) |-> "g"] \o <<".", "x">>

FilePaths == {FilePath(k) : k \in 1..MaxItems}

\* standard output of the signature scanner: the header, the separator, a
\* finding at offset 41, a line whose first field is no integer, a line of
\* two fields, and a finding at offset 0
BinwalkTable == <<"D", "E", "C", "I", "M", "A", "L", " ", " ", "H", "E", "X", " ", " ", "D", "E", "S", "C", "R", "I", "P", "T", "I", "O", "N">> \o <<"\n">>
    \o <<"-", "-", "-", "-", "-", "-", "-", "-">> \o <<"\n">>
    \o <<"4", "1", " ", "0", "x", "2", "9", " ", "Z", "l", "i", "b", " ", "d", "a", "t", "a">> \o <<"\n">>
    \o <<"x", " ", "0", "x", "1", " ", "b", "a", "d">> \o <<"\n">>
    \o <<"1", "2", " ", "0", "x", "C">> \o <<"\n">>
    \o <<"0", " ", " ", " ", "0", "x", "0", " ", " ", " ", "P", "N", "G", " ", "i", "m", "a", "g", "e", ",", " ", "1", "9", "2", "0", " ", "x", " ", "1", "0", "8", "0">> \o <<"\n">>

\* standard output of the metadata extractor
ExiftoolStdouts ==
    {<<>>, JsonExifOne \o <<"\n">>, JsonExifTwo, JsonExifEmptyType, JsonEmptyArray,
     JsonEmptyObject, JsonNumberArray, JsonObject, JsonOne, <<"E", "r", "r">>}

\* standard output of the banners plugin
BannerStdouts ==
    {<<>>, <<"M", "i", "c", "r", "o", "s", "o", "f", "t", " ", "W", "i", "n", "d", "o", "w", "s">>, <<"L", "i", "n", "u", "x", " ", "v", "e", "r", "s", "i", "o", "n", " ", "5">>,
     <<"D", "a", "r", "w", "i", "n", " ", "K", "e", "r", "n", "e", "l">>, <<"m", "a", "c", "O", "S", " ", "o", "n", " ", "l", "i", "n", "u", "x">>, <<"\\xff", "?">>}

(***************************************************************************)
(* State                                                                   *)
(***************************************************************************)
\* now      : the clock, in seconds
\* settings : the configuration: BINWALK_ENABLED, EXIFTOOL_ENABLED
\* call     : the call in progress: its operation, arguments and phase
\* task     : one record per single execution the call performs
\* sem      : value of the asyncio.Semaphore of a batch call
\* files    : the file system: content of every output and carved path
\* results  : the mapping a batch call returned
VARIABLES now, settings, call, task, sem, files, results

vars == <<now, settings, call, task, sem, files, results>>

PluginFns == {"execute_plugin", "execute_plugin_async"}
SingleOps == PluginFns \cup {"analyze_file", "extract_metadata", "detect_profile"}
BatchOps == {"execute_plugin_batch", "analyze_batch", "extract_metadata_batch"}

\* the single execution each item of a batch operation performs
ItemFn(op) ==
    IF op = "execute_plugin_batch" THEN "execute_plugin_async"
    ELSE IF op = "analyze_batch" THEN "analyze_file"
    ELSE IF op = "extract_metadata_batch" THEN "extract_metadata"
    ELSE op

\* the keys a caller may give to a single execution
Keys(fn) ==
    IF fn \in PluginFns THEN PluginNames
    ELSE IF fn = "detect_profile" THEN {<<"m", ".", "r", "a", "w">>}
    ELSE FilePaths

\* the classes of the two modules and the operations of each
Classes ==
    {"Volatility3Runner", "ProfileDetector", "BinwalkAnalyzer", "ExiftoolAnalyzer",
     "ArtifactProcessor"}

MethodsOf(cls) ==
    IF cls = "Volatility3Runner"
    THEN {"execute_plugin", "execute_plugin_async", "execute_plugin_batch"}
    ELSE IF cls = "ProfileDetector" THEN {"detect_profile"}
    ELSE IF cls = "BinwalkAnalyzer" THEN {"analyze_file", "analyze_batch"}
    ELSE IF cls = "ExiftoolAnalyzer" THEN {"extract_metadata", "extract_metadata_batch"}
    ELSE IF cls = "ArtifactProcessor" THEN {"process_artifact"}
    ELSE {}

\* no object exists yet: self is the class of the object once constructed,
\* checks the installation checks its constructor ran, error the exception
\* type a raising constructor or call raised, overlap the state of a second
\* execute_plugin_batch call on the same object: its item and its semaphore
Idle == [op |-> "none", concurrent |-> FALSE, max_concurrent |-> 0,
         extract |-> TRUE, file_path |-> <<>>, phase |-> "new", self |-> "none",
         checks |-> <<>>, error |-> None, overlap |-> [pc |-> "none", sem |-> 0],
         run_binwalk |-> FALSE, run_exiftool |-> FALSE]

\* a batch whose items pass through the semaphore
Gated == call.op \in BatchOps /\ call.concurrent

Tasks == DOMAIN task

\* the coroutine (or blocking call) i has finished: it returned or raised
Finished(i) == task[i].pc \in {"done", "raised"}

\* the single execution of item i has been admitted and has not finished
InFlight(i) == task[i].pc \in {"entered", "communicating", "killing"}

\* what the external process wrote before it exited or was timed out:
\* standard error, standard output and, possibly, a file
Tool(stderr, stdout, w) == [stderr |-> stderr, stdout |-> stdout, w |-> w]
NoTool == Tool(<<>>, <<>>, None)

\* mkdir tells what extract_dir.mkdir (line 122) did: "none" while it has
\* not been called, then "created" or "failed"
NewTask(fn, key) ==
    [fn |-> fn, key |-> key, pc |-> "pending", started_at |-> 0,
     launched_at |-> 0, proc |-> "none", exit_code |-> -1, outcome |-> "none",
     mkdir |-> "none", tool |-> NoTool, result |-> None]

\* the file names a client may upload
UploadNames == {<<"m", ".", "R", "A", "W">>, <<"m", ".", "t", "x", "t">>}

\* settings.UPLOAD_DIR / f"{image_id}_{Path(file.filename).name}" (upload.py,
\* lines 155-157); image_id is a fresh uuid4, the "u" of the model
Destination(filename) == <<"u", "_">> \o PathName(filename)

AllPaths ==
    {OutputFile(n) : n \in PluginNames} \cup {CarvedFile(ExtractDir(p)) : p \in FilePaths}
        \cup {Destination(n) : n \in UploadNames}

\* the file system when the call starts: empty, or holding the output of
\* an earlier run; no file has the name of a destination yet
InitialFiles ==
    {[p \in AllPaths |-> NoFile],
     [p \in AllPaths |-> IF \E n \in UploadNames : p = Destination(n)
                          THEN NoFile ELSE OneRecord]}

Init ==
    /\ now = 0
    /\ settings \in [BINWALK_ENABLED : BOOLEAN, EXIFTOOL_ENABLED : BOOLEAN]
    /\ call = Idle
    /\ task = <<>>
    /\ sem = 0
    /\ files \in InitialFiles
    /\ results = <<>>

(***************************************************************************)
(* Construction: every analyzer checks its installation in __init__.  The  *)
(* check is a blocking subprocess.run, so a constructor is one step.       *)
(***************************************************************************)
\* what the version/help invocation does: exits 0, exits non-zero, cannot
\* be started because the binary is missing or is not executable, or does
\* not answer within the timeout of the check
VerifyChecks == {"ok", "nonzero", "missing", "not_executable", "timeout"}

\* Volatility3Runner._verify_volatility_installation (lines 88-106): the
\* type of the exception it raises, None when it returns
verify_volatility_installation(check) ==
    IF check = "ok" THEN None
    ELSE IF check = "nonzero" THEN Some("RuntimeError")
    ELSE IF check = "missing" THEN Some("RuntimeError")
    ELSE IF check = "timeout" THEN Some("RuntimeError")
    ELSE Some("PermissionError")

\* BinwalkAnalyzer._verify_installation (lines 72-88) and
\* ExiftoolAnalyzer._verify_installation (lines 283-300): only
\* FileNotFoundError is caught
verify_installation(check) ==
    IF check = "ok" THEN None
    ELSE IF check = "nonzero" THEN Some("RuntimeError")
    ELSE IF check = "missing" THEN Some("RuntimeError")
    ELSE IF check = "timeout" THEN Some("TimeoutExpired")
    ELSE Some("PermissionError")

\* mutant: the installation of a disabled tool is not verified
ChecksRun_EnabledOnly(cls, image_exists, c1, c2) ==
    IF cls = "Volatility3Runner"
    THEN (IF image_exists THEN << <<"Volatility3Runner", c1>> >> ELSE <<>>)
    ELSE IF cls = "BinwalkAnalyzer"
    THEN (IF settings.BINWALK_ENABLED THEN << <<"BinwalkAnalyzer", c1>> >> ELSE <<>>)
    ELSE IF cls = "ExiftoolAnalyzer"
    THEN (IF settings.EXIFTOOL_ENABLED THEN << <<"ExiftoolAnalyzer", c1>> >> ELSE <<>>)
    ELSE IF cls = "ArtifactProcessor"
    THEN (IF settings.BINWALK_ENABLED /\ verify_installation(c1) # None
          THEN << <<"BinwalkAnalyzer", c1>> >>
          ELSE (IF settings.BINWALK_ENABLED THEN << <<"BinwalkAnalyzer", c1>> >> ELSE <<>>)
               \o (IF settings.EXIFTOOL_ENABLED
                   THEN << <<"ExiftoolAnalyzer", c2>> >> ELSE <<>>))
    ELSE <<>>

\* the installation checks the constructor of cls runs, in order, for the
\* outcomes c1 (first tool) and c2 (second tool); Volatility3Runner checks
\* nothing when the memory image does not exist (lines 79-80) and
\* ArtifactProcessor builds its ExiftoolAnalyzer only after its
\* BinwalkAnalyzer (lines 457-458)
ChecksRun(cls, image_exists, c1, c2) ==
    IF cls = "Volatility3Runner"
    THEN (IF image_exists THEN << <<"Volatility3Runner", c1>> >> ELSE <<>>)
    ELSE IF cls = "BinwalkAnalyzer" THEN << <<"BinwalkAnalyzer", c1>> >>
    ELSE IF cls = "ExiftoolAnalyzer" THEN << <<"ExiftoolAnalyzer", c1>> >>
    ELSE IF cls = "ArtifactProcessor"
    THEN (IF verify_installation(c1) = None
          THEN << <<"BinwalkAnalyzer", c1>>, <<"ExiftoolAnalyzer", c2>> >>
          ELSE << <<"BinwalkAnalyzer", c1>> >>)
    ELSE <<>>

\* __init__ of cls: the type of the exception it raises, None when the
\* object is constructed
InitError(cls, image_exists, c1, c2) ==
    LET checks == ChecksRun(cls, image_exists, c1, c2)
    IN  IF cls = "Volatility3Runner" /\ ~image_exists THEN Some("FileNotFoundError")
        ELSE IF checks = <<>> THEN None
        ELSE LET chk == checks[Len(checks)]
             IN  IF chk[1] = "Volatility3Runner"
                 THEN verify_volatility_installation(chk[2])
                 ELSE verify_installation(chk[2])

\* a caller constructs an object of class cls
Construct(cls, image_exists, c1, c2) ==
    /\ call.phase = "new"
    /\ LET e == InitError(cls, image_exists, c1, c2)
       IN  call' = [call EXCEPT !.op = "__init__", !.self = cls,
                                !.checks = ChecksRun(cls, image_exists, c1, c2),
                                !.error = e,
                                !.phase = IF e = None THEN "idle" ELSE "raised"]
    /\ UNCHANGED <<now, settings, task, sem, files, results>>

\* the arguments that make a difference to the constructor of cls
ConstructArgs(cls) ==
    (IF cls = "Volatility3Runner" THEN BOOLEAN ELSE {TRUE})
    \X (IF cls = "ProfileDetector" THEN {"ok"} ELSE VerifyChecks)
    \X (IF cls = "ArtifactProcessor" THEN VerifyChecks ELSE {"ok"})

(***************************************************************************)
(* api/routes/upload.py: upload_memory_image.  The handler runs from the   *)
(* request to its response in one step.  Sizes are in bytes, for           *)
(* MAX_UPLOAD_SIZE_GB = 1.                                                 *)
(***************************************************************************)
MAX_UPLOAD_SIZE_BYTES == 1024 * 1024 * 1024

\* validate_file_extension (lines 43-52): the status code of the
\* HTTPException it raises, None when it returns
validate_file_extension(filename) ==
    LET name == PathName(filename)
        file_ext == Lower(SubSeq(name, Len(Stem(name)) + 1, Len(name)))
    IN  IF file_ext \in {<<".", "r", "a", "w">>, <<".", "m", "e", "m">>,
                         <<".", "d", "m", "p">>, <<".", "v", "m", "e", "m">>,
                         <<".", "b", "i", "n">>, <<".", "d", "d">>,
                         <<".", "l", "i", "m", "e">>, <<".", "e", "l", "f">>}
        THEN None ELSE Some(400)

\* validate_file_size (lines 71-84)
validate_file_size(file_size) ==
    IF file_size > MAX_UPLOAD_SIZE_BYTES THEN Some(413)
    ELSE IF file_size < 1024 THEN Some(400)
    ELSE None

\* save_upload_with_hash (lines 87-120) for an upload of size bytes: fault
\* tells what fails, the creation of the upload directory (line 101,
\* before the try) or a read or write of the loop, whose handler unlinks
\* the partial file (lines 116-120)
save_upload_with_hash(size, fault) ==
    IF fault = "mkdir" THEN [raises |-> TRUE, file |-> NoFile, file_size |-> 0]
    ELSE IF fault = "write"
    THEN LET partial == EmptyFile
         IN  [raises |-> TRUE, file |-> IF partial.exists THEN NoFile ELSE partial,
              file_size |-> 0]
    ELSE [raises |-> FALSE, file |-> File(<<Digits(size)>>), file_size |-> size]

\* upload_memory_image (lines 148-210): the status code of the response and
\* the file at the destination when the handler ends
UploadOutcome(filename, size, fault) ==
    LET ext == validate_file_extension(filename)
        saved == save_upload_with_hash(size, fault)
        sized == validate_file_size(saved.file_size)
    IN  IF ext # None THEN [status_code |-> Get(ext), file |-> NoFile]
        ELSE IF saved.raises
        THEN [status_code |-> 500,
              file |-> IF saved.file.exists THEN NoFile ELSE saved.file]
        ELSE IF sized # None THEN [status_code |-> Get(sized), file |-> saved.file]
        ELSE [status_code |-> 201, file |-> saved.file]

\* a client posts a file to the upload route
upload_memory_image(filename, size, fault) ==
    /\ call.phase = "new"
    /\ LET r == UploadOutcome(filename, size, fault)
       IN  /\ call' = [call EXCEPT !.op = "upload_memory_image",
                                   !.file_path = filename,
                                   !.phase = IF r.status_code = 201 THEN "returned"
                                             ELSE "raised",
                                   !.error = IF r.status_code = 201 THEN None
                                             ELSE Some("HTTPException")]
           /\ files' = [files EXCEPT ![Destination(filename)] = r.file]
           /\ results' = [status_code |-> r.status_code]
    /\ UNCHANGED <<now, settings, task, sem>>

(***************************************************************************)
(* Entering a single execution: the code from the start of the function to *)
(* its first suspension point, the launch of the subprocess.               *)
(***************************************************************************)
\* mutant: the subprocess is launched before the try block
InsideTry_LaunchOutside(fn, step) == step \notin {"mkdir", "launch"}

\* the steps each function performs inside its try block, whose handlers
\* turn an exception into a result: all but the creation of the extraction
\* directory, which analyze_file does at line 122, before its try of line 134
InsideTry(fn, step) == step # "mkdir"

\* mutant: the enabled flags are not consulted
ShortCircuit_Never(fn, cfg) == FALSE

\* if not settings.BINWALK_ENABLED (line 107), if not
\* settings.EXIFTOOL_ENABLED (line 317): the first statement of the function
ShortCircuit(fn, cfg) ==
    \/ fn = "analyze_file" /\ ~cfg.BINWALK_ENABLED
    \/ fn = "extract_metadata" /\ ~cfg.EXIFTOOL_ENABLED

\* analyze_file lines 107-132, extract_metadata lines 317-340, execute_plugin
\* lines 123-133, execute_plugin_async lines 219-224: the task after them.
\* mkdir_ok tells whether extract_dir.mkdir (line 122) succeeds.
Enter(t, clock, cfg, mkdir_ok) ==
    IF ShortCircuit(t.fn, cfg)
    THEN [t EXCEPT !.pc = "done", !.outcome = "disabled",
                   !.result = Some(IF t.fn = "analyze_file"
                                   THEN analyze_file_disabled(t.key)
                                   ELSE extract_metadata_disabled(t.key))]
    ELSE IF t.fn = "analyze_file" /\ ~mkdir_ok
    THEN (IF InsideTry(t.fn, "mkdir")
          THEN [t EXCEPT !.pc = "done", !.outcome = "mkdir_failed",
                         !.mkdir = "failed",
                         !.result = Some(analyze_file_exception(t.key, clock, clock,
                                                                LaunchError))]
          ELSE [t EXCEPT !.pc = "raised", !.outcome = "mkdir_failed",
                         !.mkdir = "failed"])
    ELSE [t EXCEPT !.pc = "entered", !.started_at = clock,
                   !.mkdir = IF t.fn = "analyze_file" THEN "created" ELSE "none"]

\* whether creating the extraction directory can fail
MkdirOutcomes(fn) == IF fn = "analyze_file" THEN BOOLEAN ELSE {TRUE}

\* the phase of a direct call whose only task is t
PhaseOf(t) ==
    IF t.pc = "done" THEN "returned"
    ELSE IF t.pc = "raised" THEN "raised" ELSE "active"

\* a caller invokes one single execution directly
StartSingle(fn, key, extract, mkdir_ok) ==
    /\ call.phase = "idle"
    /\ fn \in MethodsOf(call.self)
    /\ LET t == Enter(NewTask(fn, key), now, settings, mkdir_ok)
       IN  /\ task' = <<t>>
           /\ call' = [call EXCEPT !.op = fn, !.extract = extract,
                                   !.phase = PhaseOf(t),
                                   !.error = IF t.pc = "raised" THEN Some("OSError")
                                             ELSE None]
    /\ UNCHANGED <<now, settings, sem, files, results>>

\* the operations a caller of the model repeats on the same input
RepeatedOps == {"execute_plugin", "analyze_file", "extract_metadata"}

\* mutant: mkdir without exist_ok refuses a directory that exists
MkdirAgain_Strict(first) == first # "created"

\* extract_dir.mkdir(parents=True, exist_ok=True) (line 122) in a
\* repetition: the directory the first run created is accepted
MkdirAgain(first) == TRUE

\* the caller repeats a direct call that returned, on the same input
Rerun ==
    /\ call.phase = "returned"
    /\ call.op \in RepeatedOps
    /\ Len(task) = 1
    /\ LET t == Enter(NewTask(call.op, task[1].key), now, settings,
                      MkdirAgain(task[1].mkdir))
       IN  /\ task' = Append(task, t)
           /\ call' = [call EXCEPT !.phase = PhaseOf(t),
                                   !.error = IF t.pc = "raised" THEN Some("OSError")
                                             ELSE None]
    /\ UNCHANGED <<now, settings, sem, files, results>>

\* execute_plugin_batch (lines 397-413), analyze_batch (lines 248-256),
\* extract_metadata_batch (lines 423-431): gather creates one task per item
StartBatch(op, keys, concurrent, max_concurrent) ==
    /\ call.phase = "idle"
    /\ op \in MethodsOf(call.self)
    /\ call' = [call EXCEPT !.op = op, !.concurrent = concurrent,
                            !.max_concurrent = max_concurrent, !.phase = "active"]
    /\ task' = [i \in 1..Len(keys) |-> NewTask(ItemFn(op), keys[i])]
    /\ sem' = IF concurrent THEN max_concurrent ELSE 0
    /\ UNCHANGED <<now, settings, files, results>>

\* mutant: acquire never blocks
SlotFree_Always(value) == TRUE

\* Semaphore.acquire does not block
SlotFree(value) == value > 0

\* mutant: leaving "async with" does not give the slot back
Released_Leaked(value) == value

\* Semaphore.release
Released(value) == value + 1

\* async with semaphore: item i takes a slot and enters its execution; an
\* execution that ends before its first suspension point gives the slot
\* back in the same step
Acquire(i, mkdir_ok) ==
    /\ call.phase = "active" /\ Gated
    /\ task[i].pc = "pending"
    /\ SlotFree(sem)
    /\ LET t == Enter(task[i], now, settings, mkdir_ok)
       IN  /\ task' = [task EXCEPT ![i] = t]
           /\ sem' = IF t.pc \in {"done", "raised"} THEN Released(sem - 1)
                     ELSE sem - 1
    /\ UNCHANGED <<now, settings, call, files, results>>

\* sequential mode (lines 397-402): item i starts when all before it returned
EnterSequential(i) ==
    /\ call.phase = "active" /\ call.op \in BatchOps /\ ~call.concurrent
    /\ task[i].pc = "pending"
    /\ \A j \in 1..(i - 1) : task[j].pc = "done"
    /\ task' = [task EXCEPT ![i] = Enter(task[i], now, settings, TRUE)]
    /\ UNCHANGED <<now, settings, call, sem, files, results>>

(***************************************************************************)
(* A second call of execute_plugin_batch on the same Volatility3Runner,    *)
(* started on the same event loop while the first one is waiting in        *)
(* gather.  The model starts it beside a first call of one item, gives it  *)
(* the same max_concurrent and one item, and follows its item only from    *)
(* admission to its end.                                                   *)
(***************************************************************************)
\* line 405: the second call creates a semaphore of its own
StartOverlap ==
    /\ call.phase = "active" /\ call.op = "execute_plugin_batch" /\ call.concurrent
    /\ Len(task) = 1
    /\ call.overlap.pc = "none"
    /\ call' = [call EXCEPT !.overlap = [pc |-> "pending", sem |-> call.max_concurrent]]
    /\ UNCHANGED <<now, settings, task, sem, files, results>>

\* lines 408-409: the item of the second call takes a slot of the second
\* call's semaphore and starts its execution
OverlapAcquire ==
    /\ call.phase = "active"
    /\ call.overlap.pc = "pending"
    /\ SlotFree(call.overlap.sem)
    /\ call' = [call EXCEPT !.overlap.pc = "entered", !.overlap.sem = @ - 1]
    /\ UNCHANGED <<now, settings, task, sem, files, results>>

\* the execution of the second call's item ends and leaves "async with"
OverlapFinish ==
    /\ call.phase = "active"
    /\ call.overlap.pc = "entered"
    /\ call' = [call EXCEPT !.overlap.pc = "done", !.overlap.sem = Released(@)]
    /\ UNCHANGED <<now, settings, task, sem, files, results>>

(***************************************************************************)
(* Finishing a single execution                                            *)
(***************************************************************************)
\* item i returns res; leaving "async with" releases the slot in the same
\* step of the event loop; a direct call returns to its caller.  The locals
\* started_at and launched_at end with the frame.
Return(i, res, outcome, proc, exit_code, tool) ==
    /\ task' = [task EXCEPT ![i].pc = "done", ![i].result = Some(res),
                            ![i].outcome = outcome, ![i].proc = proc,
                            ![i].exit_code = exit_code, ![i].tool = tool,
                            ![i].started_at = 0, ![i].launched_at = 0]
    /\ sem' = IF Gated THEN Released(sem) ELSE sem
    /\ call' = IF call.op \in SingleOps
               THEN [call EXCEPT !.phase = "returned"] ELSE call

\* the execution of item i raises: the exception leaves "async with", which
\* releases the slot, and reaches gather or the direct caller
Raise(i, outcome, proc, exit_code, tool) ==
    /\ task' = [task EXCEPT ![i].pc = "raised", ![i].outcome = outcome,
                            ![i].proc = proc, ![i].exit_code = exit_code,
                            ![i].tool = tool,
                            ![i].started_at = 0, ![i].launched_at = 0]
    /\ sem' = IF Gated THEN Released(sem) ELSE sem
    /\ call' = IF call.op \in SingleOps
               THEN [call EXCEPT !.phase = "raised", !.error = Some("OSError")]
               ELSE call

(***************************************************************************)
(* The results of a single execution, by function                          *)
(***************************************************************************)
CompletedResult(fn, key, extract, started_at, clock, returncode, stderr, stdout, fs) ==
    IF fn = "execute_plugin"
    THEN execute_plugin_completed(key, started_at, clock, returncode, stderr, fs)
    ELSE IF fn = "execute_plugin_async"
    THEN execute_plugin_async_completed(key, started_at, clock, returncode, stderr, fs)
    ELSE IF fn = "analyze_file"
    THEN analyze_file_completed(key, extract, started_at, clock, returncode,
                                stderr, stdout, fs)
    ELSE IF fn = "extract_metadata"
    THEN extract_metadata_completed(key, started_at, clock, returncode, stderr, stdout)
    ELSE detect_profile_completed(stdout)

ExceptionResult(fn, key, started_at, clock, e) ==
    IF fn \in PluginFns THEN execute_plugin_exception(key, started_at, clock, e)
    ELSE IF fn = "analyze_file" THEN analyze_file_exception(key, started_at, clock, e)
    ELSE IF fn = "extract_metadata"
    THEN extract_metadata_exception(key, started_at, clock, e)
    ELSE detect_profile_exception

\* the handler of asyncio.TimeoutError in the functions that have no
\* kill of their own
AbandonResult(fn, key, started_at, clock, timeout_seconds) ==
    IF fn = "analyze_file"
    THEN analyze_file_timeout(key, started_at, clock, timeout_seconds)
    ELSE IF fn = "extract_metadata"
    THEN extract_metadata_timeout(key, started_at, clock, timeout_seconds)
    ELSE detect_profile_exception

\* what a process may write to standard error, to standard output and to
\* its output file (nothing, None, or a new content); the items of a batch and the branches of
\* process_artifact draw from fewer samples
Stderrs(fn) ==
    IF call.op \notin SingleOps THEN {<<>>}
    ELSE IF fn \in PluginFns THEN StderrSamples
    ELSE IF fn = "detect_profile" THEN {<<>>}
    ELSE {<<>>, StderrLines, <<"e", "\\xff">>}

Stdouts(fn) ==
    IF fn \in PluginFns THEN {<<>>}
    ELSE IF fn = "analyze_file"
    THEN (IF call.op \notin SingleOps THEN {<<"0", " ", "0", "x", "0", " ", "x">>}
          ELSE {<<>>, BinwalkTable, <<"-", "1", " ", "0", "x", "0", " ", "x">>})
    ELSE IF fn = "extract_metadata"
    THEN (IF call.op \notin SingleOps THEN {JsonExifOne} ELSE ExiftoolStdouts)
    ELSE BannerStdouts

Writes(fn) ==
    IF call.op \notin SingleOps THEN {None}
    ELSE IF fn \in PluginFns
    THEN {None} \cup {Some(c) : c \in {BadEncoding, EmptyFile, OneRecord,
                                       File(<< <<" ">>, <<"{", "}", " ">>, <<"{">>, <<"1">> >>),
                                       File(<< <<>>, <<" ">> >>)}}
    ELSE IF fn = "analyze_file" THEN {None, Some(EmptyFile)}
    ELSE {None}

\* the path a process started for key may write: the plugin's output file,
\* or a file carved into the extraction directory
WritePath(fn, key) ==
    IF fn \in PluginFns THEN OutputFile(key) ELSE CarvedFile(ExtractDir(key))

Written(fs, path, w) == IF w = None THEN fs ELSE [fs EXCEPT ![path] = Get(w)]

(***************************************************************************)
(* The steps of a single execution                                         *)
(***************************************************************************)
\* the external tool is deterministic: in a repetition it does what it did
\* in the first run
Replays(i, outcome, exit_code, tool) ==
    (call.op \in SingleOps /\ i > 1) =>
        /\ task[1].outcome = outcome
        /\ task[1].exit_code = exit_code
        /\ task[1].tool = tool

\* mutant: the timeout is measured from the start of the call
TimerDue_SinceCall(launched_at, clock) == clock >= TimeoutSeconds

\* subprocess.run(timeout=) (lines 137-143) and asyncio.wait_for(
\* process.communicate(), timeout=) (lines 237-240; 142-145 and 349-352 of
\* artifact_processor.py): the timer starts with the wait for the process
\* that was just launched, and is due timeout seconds later
TimerDue(launched_at, clock) == clock - launched_at >= TimeoutSeconds

\* subprocess.run / asyncio.create_subprocess_exec started the process
Launch(i) ==
    /\ call.phase = "active"
    /\ task[i].pc = "entered"
    /\ task' = [task EXCEPT ![i].pc = "communicating", ![i].proc = "running",
                            ![i].launched_at = now]
    /\ UNCHANGED <<now, settings, call, sem, files, results>>

\* the executable is missing or not executable: the launch raises, and
\* except Exception turns it into a result
LaunchFail(i, e) ==
    /\ call.phase = "active"
    /\ task[i].pc = "entered"
    /\ Replays(i, "launch_failed", -1, NoTool)
    /\ IF InsideTry(task[i].fn, "launch")
       THEN Return(i, ExceptionResult(task[i].fn, task[i].key, task[i].started_at,
                                      now, e),
                   "launch_failed", "none", -1, NoTool)
       ELSE Raise(i, "launch_failed", "none", -1, NoTool)
    /\ UNCHANGED <<now, settings, files, results>>

\* the process exits with returncode before the timeout expires, having
\* written stderr, stdout and possibly a file
Exit(i, returncode, stderr, stdout, w) ==
    /\ call.phase = "active"
    /\ task[i].pc = "communicating"
    /\ now - task[i].launched_at <= TimeoutSeconds
    /\ Replays(i, "exited", returncode, Tool(stderr, stdout, w))
    /\ files' = Written(files, WritePath(task[i].fn, task[i].key), w)
    /\ IF InsideTry(task[i].fn, "communicate")
       THEN Return(i, CompletedResult(task[i].fn, task[i].key, call.extract,
                                      task[i].started_at, now,
                                      returncode, stderr, stdout, files'),
                   "exited", "exited", returncode, Tool(stderr, stdout, w))
       ELSE Raise(i, "exited", "exited", returncode, Tool(stderr, stdout, w))
    /\ UNCHANGED <<now, settings, results>>

\* execute_plugin: subprocess.run reaches its timeout, kills the child,
\* reaps it and raises TimeoutExpired (lines 137-143, 173-191)
TimeoutSync(i, e_stderr, w) ==
    /\ call.phase = "active"
    /\ task[i].fn = "execute_plugin"
    /\ task[i].pc = "communicating"
    /\ TimerDue(task[i].launched_at, now)
    /\ Replays(i, "timeout", -1, Tool(e_stderr, <<>>, w))
    /\ files' = Written(files, WritePath(task[i].fn, task[i].key), w)
    /\ Return(i, execute_plugin_timeout(task[i].key, task[i].started_at, now,
                                        TimeoutSeconds, e_stderr, files'),
              "timeout", "terminated", -1, Tool(e_stderr, <<>>, w))
    /\ UNCHANGED <<now, settings, results>>

\* execute_plugin_async: wait_for raises TimeoutError; process.kill() is
\* called and process.wait() is awaited (lines 241-243)
TimeoutAsync(i, w) ==
    /\ call.phase = "active"
    /\ task[i].fn = "execute_plugin_async"
    /\ task[i].pc = "communicating"
    /\ TimerDue(task[i].launched_at, now)
    /\ files' = Written(files, WritePath(task[i].fn, task[i].key), w)
    /\ task' = [task EXCEPT ![i].pc = "killing", ![i].proc = "signalled",
                            ![i].outcome = "timeout",
                            ![i].tool = Tool(<<>>, <<>>, w)]
    /\ UNCHANGED <<now, settings, call, sem, results>>

\* the operating system ends a process that was sent SIGKILL
ProcessDies(i) ==
    /\ task[i].proc = "signalled"
    /\ task' = [task EXCEPT ![i].proc = "terminated"]
    /\ UNCHANGED <<now, settings, call, sem, files, results>>

\* mutant: the handler does not wait for the killed process
AwaitProcessWait_Skipped(proc) == TRUE

\* await process.wait() (line 243) resumes once the process has terminated
AwaitProcessWait(proc) == proc = "terminated"

\* execute_plugin_async: process.wait() returned; TimeoutExpired is raised
\* and caught (lines 244, 271-284)
KillAwaited(i) ==
    /\ call.phase = "active"
    /\ task[i].pc = "killing"
    /\ AwaitProcessWait(task[i].proc)
    /\ Return(i, execute_plugin_async_timeout(task[i].key, task[i].started_at, now,
                                              TimeoutSeconds, <<>>, files),
              "timeout", task[i].proc, -1, task[i].tool)
    /\ UNCHANGED <<now, settings, files, results>>

\* the state of the child process when the handler of asyncio.TimeoutError
\* returns: analyze_file (lines 169-179), extract_metadata (lines 384-394)
\* and detect_profile (lines 482-489) send it no signal
AbandonedProcess(proc) == proc

\* analyze_file, extract_metadata, detect_profile: wait_for raises
\* TimeoutError, which cancels communicate(); the handler returns a result
TimeoutAbandon(i, w) ==
    /\ call.phase = "active"
    /\ task[i].fn \in {"analyze_file", "extract_metadata", "detect_profile"}
    /\ task[i].pc = "communicating"
    /\ TimerDue(task[i].launched_at, now)
    /\ Replays(i, "timeout", -1, Tool(<<>>, <<>>, w))
    /\ files' = Written(files, WritePath(task[i].fn, task[i].key), w)
    /\ Return(i, AbandonResult(task[i].fn, task[i].key, task[i].started_at, now,
                               TimeoutSeconds),
              "timeout", AbandonedProcess(task[i].proc), -1, Tool(<<>>, <<>>, w))
    /\ UNCHANGED <<now, settings, results>>

\* one second passes while some process is being waited for; a timer that
\* is due fires before more time passes
Tick ==
    /\ call.phase = "active"
    /\ \E i \in Tasks : task[i].pc = "communicating"
    /\ \A i \in Tasks : task[i].pc = "communicating"
                          => ~TimerDue(task[i].launched_at, now)
    /\ now' = now + 1
    /\ UNCHANGED <<settings, call, task, sem, files, results>>

(***************************************************************************)
(* Returning from a batch                                                  *)
(***************************************************************************)
\* mutant: only the items whose process was launched are kept in the mapping
ResultMapping_Launched(ts) ==
    LET done == {i \in DOMAIN ts : ts[i].pc = "done" /\ ts[i].outcome # "launch_failed"}
        Last(k) == CHOOSE i \in done :
                      ts[i].key = k /\ \A j \in done : ts[j].key = k => j <= i
    IN  [k \in {ts[i].key : i \in done} |-> Get(ts[Last(k)].result)]

\* mutant: only the items that did not time out are kept in the mapping
ResultMapping_DropTimeouts(ts) ==
    LET done == {i \in DOMAIN ts :
                    /\ ts[i].pc = "done"
                    /\ ~(ts[i].fn \in PluginFns /\ Get(ts[i].result).status = TIMEOUT)}
        Last(k) == CHOOSE i \in done :
                      ts[i].key = k /\ \A j \in done : ts[j].key = k => j <= i
    IN  [k \in {ts[i].key : i \in done} |-> Get(ts[Last(k)].result)]

\* lines 415-424, 258-266, 433-441: the mapping built from the gathered
\* items; in sequential mode (lines 399-402) the mapping built by the loop
ResultMapping(ts) ==
    LET done == {i \in DOMAIN ts : ts[i].pc = "done"}
        Last(k) == CHOOSE i \in done :
                      ts[i].key = k /\ \A j \in done : ts[j].key = k => j <= i
    IN  [k \in {ts[i].key : i \in done} |-> Get(ts[Last(k)].result)]

\* mutant: the batch resumes as soon as one task has finished
GatherDone_First(ts) == \E i \in DOMAIN ts : ts[i].pc \in {"done", "raised"}

\* asyncio.gather(*tasks, return_exceptions=True) resumes the batch: every
\* task has returned or raised
GatherDone(ts) == \A i \in DOMAIN ts : ts[i].pc \in {"done", "raised"}

\* mutant: gather without return_exceptions raises the first exception
GatherPhase_Propagate(ts) ==
    IF \E i \in DOMAIN ts : ts[i].pc = "raised" THEN "raised" ELSE "returned"

\* return_exceptions=True (lines 413, 256, 431): gather hands exceptions
\* over as values, so the batch goes on to its return statement
GatherPhase(ts) == "returned"

ReturnBatch ==
    /\ call.phase = "active"
    /\ call.op \in BatchOps
    /\ GatherDone(task)
    /\ results' = ResultMapping(task)
    /\ call' = [call EXCEPT !.phase = GatherPhase(task)]
    /\ UNCHANGED <<now, settings, task, sem, files>>

(***************************************************************************)
(* ArtifactProcessor.process_artifact.  The record it returns is modelled  *)
(* without processed_at and file_size_bytes.                               *)
(***************************************************************************)
\* _normalize_result (lines 510-531); fn tells the class of the result
normalize_result(fn, result) ==
    IF fn = "analyze_file"
    THEN [success |-> result.success,
          signatures_found |-> result.signatures_found,
          extracted_file_count |-> Cardinality(result.extracted_files),
          extracted_files |-> result.extracted_files,
          error |-> result.error_message,
          execution_time_seconds |-> result.execution_time_seconds]
    ELSE [success |-> result.success,
          file_type |-> result.file_type,
          metadata |-> result.metadata,
          error |-> result.error_message,
          execution_time_seconds |-> result.execution_time_seconds]

\* mutant: the entries are filled crosswise
BranchName_Swapped(fn) == IF fn = "analyze_file" THEN "exiftool" ELSE "binwalk"

\* the key of results each branch fills
BranchName(fn) == IF fn = "analyze_file" THEN "binwalk" ELSE "exiftool"

\* process_artifact up to its await of asyncio.gather (lines 477-496); the
\* branches it runs are those of lines 486-492
StartProcess(file_path, run_binwalk, run_exiftool) ==
    /\ call.phase = "idle"
    /\ "process_artifact" \in MethodsOf(call.self)
    /\ call' = [call EXCEPT !.op = "process_artifact", !.file_path = file_path,
                            !.run_binwalk = run_binwalk, !.run_exiftool = run_exiftool,
                            !.extract = TRUE, !.phase = "active"]
    /\ task' = (IF run_binwalk /\ settings.BINWALK_ENABLED
                 THEN <<NewTask("analyze_file", file_path)>> ELSE <<>>)
                \o (IF run_exiftool /\ settings.EXIFTOOL_ENABLED
                    THEN <<NewTask("extract_metadata", file_path)>> ELSE <<>>)
    /\ UNCHANGED <<now, settings, sem, files, results>>

\* the event loop starts the coroutine of branch i
EnterBranch(i, mkdir_ok) ==
    /\ call.phase = "active" /\ call.op = "process_artifact"
    /\ task[i].pc = "pending"
    /\ task' = [task EXCEPT ![i] = Enter(task[i], now, settings, mkdir_ok)]
    /\ UNCHANGED <<now, settings, call, sem, files, results>>

\* mutant: a branch that raised leaves its key at None
BranchEntry_DropRaised(t) ==
    IF t.pc = "raised" THEN None
    ELSE Some(normalize_result(t.fn, Get(t.result)))

\* lines 499-504: the entry of results for the finished branch t; the only
\* exception of the model is the OSError of extract_dir.mkdir
BranchEntry(t) ==
    IF t.pc = "raised"
    THEN Some([error |-> LaunchError])
    ELSE Some(normalize_result(t.fn, Get(t.result)))

\* the record process_artifact returns (lines 477-483, 498-506)
ProcessRecord(file_path, ts) ==
    LET Entry(name) ==
            IF \E i \in DOMAIN ts : BranchName(ts[i].fn) = name
            THEN BranchEntry(ts[CHOOSE i \in DOMAIN ts : BranchName(ts[i].fn) = name])
            ELSE None
    IN  [file_path |-> file_path, binwalk |-> Entry("binwalk"),
         exiftool |-> Entry("exiftool")]

\* gather resumed process_artifact, which returns its record
ReturnProcess ==
    /\ call.phase = "active"
    /\ call.op = "process_artifact"
    /\ GatherDone(task)
    /\ results' = ProcessRecord(call.file_path, task)
    /\ call' = [call EXCEPT !.phase = "returned"]
    /\ UNCHANGED <<now, settings, task, sem, files>>

\* the batches of the model: the first n keys, all distinct
Batches(op) ==
    {[j \in 1..n |-> IF op = "execute_plugin_batch" THEN PluginName(j) ELSE FilePath(j)] :
        n \in 0..MaxItems}

\* only analyze_file takes the extract argument, and only
\* execute_plugin_batch has a sequential mode
Next ==
    \/ \E cls \in Classes : \E a \in ConstructArgs(cls) : Construct(cls, a[1], a[2], a[3])
    \/ \E fn \in SingleOps : \E key \in Keys(fn),
          x \in (IF fn = "analyze_file" THEN BOOLEAN ELSE {TRUE}),
          ok \in MkdirOutcomes(fn) : StartSingle(fn, key, x, ok)
    \/ \E op \in BatchOps : \E keys \in Batches(op),
          c \in (IF op = "execute_plugin_batch" THEN BOOLEAN ELSE {TRUE}),
          m \in 0..MaxConcurrent : StartBatch(op, keys, c, m)
    \/ \E i \in Tasks : \E ok \in MkdirOutcomes(task[i].fn) : Acquire(i, ok)
    \/ \E i \in Tasks : EnterSequential(i)
    \/ \E i \in Tasks : Launch(i)
    \/ \E i \in Tasks, e \in {LaunchError} : LaunchFail(i, e)
    \/ \E i \in Tasks : \E rc \in {0, 1}, err \in Stderrs(task[i].fn),
          out \in Stdouts(task[i].fn), w \in Writes(task[i].fn) : Exit(i, rc, err, out, w)
    \/ \E i \in Tasks : \E err \in Stderrs(task[i].fn), w \in Writes(task[i].fn) :
          TimeoutSync(i, err, w)
    \/ \E i \in Tasks : \E w \in Writes(task[i].fn) : TimeoutAsync(i, w)
    \/ \E i \in Tasks : ProcessDies(i)
    \/ \E i \in Tasks : KillAwaited(i)
    \/ \E i \in Tasks : \E w \in Writes(task[i].fn) : TimeoutAbandon(i, w)
    \/ Tick
    \/ ReturnBatch
    \/ \E p \in FilePaths, b \in BOOLEAN, x \in BOOLEAN : StartProcess(p, b, x)
    \/ \E i \in Tasks : \E ok \in MkdirOutcomes(task[i].fn) : EnterBranch(i, ok)
    \/ ReturnProcess
    \/ Rerun
    \/ \E n \in UploadNames, fault \in {"none", "mkdir", "write"},
          size \in {0, 1023, 1024, MAX_UPLOAD_SIZE_BYTES, MAX_UPLOAD_SIZE_BYTES + 1} :
          upload_memory_image(n, size, fault)
    \/ StartOverlap
    \/ OverlapAcquire
    \/ OverlapFinish

Spec == Init /\ [][Next]_vars

\* The steps that are not postponed forever: the event loop resumes a
\* coroutine that is ready (admission by the semaphore, the next item of the
\* sequential loop, the launch of the subprocess, the return of gather),
\* time passes, a timer that is due fires, and a killed process dies.  A
\* process need not exit by itself: its timer ends the wait for it.
Progress ==
    \/ \E i \in Tasks : \E ok \in MkdirOutcomes(task[i].fn) : Acquire(i, ok)
    \/ \E i \in Tasks : EnterSequential(i)
    \/ \E i \in Tasks : Launch(i)
    \/ \E i \in Tasks : \E w \in Writes(task[i].fn) : TimeoutAsync(i, w)
    \/ \E i \in Tasks : ProcessDies(i)
    \/ \E i \in Tasks : KillAwaited(i)
    \/ \E i \in Tasks : \E w \in Writes(task[i].fn) : TimeoutAbandon(i, w)
    \/ Tick
    \/ ReturnBatch

\* the content of the files has no influence on the scheduling, and a batch
\* runs one tool only: the behaviours with fairness start from the empty
\* output directory, with both tools enabled or both disabled
LiveInit ==
    /\ Init
    /\ \A p \in AllPaths : files[p] = NoFile
    /\ settings.BINWALK_ENABLED = settings.EXIFTOOL_ENABLED

LiveSpec == LiveInit /\ [][Next]_vars /\ WF_vars(Progress)

(***************************************************************************)
(* Properties                                                              *)
(***************************************************************************)
InFlightCount == Cardinality({i \in Tasks : InFlight(i)})

\* the single executions that returned a result
Done == {i \in Tasks : task[i].pc = "done"}
Result(i) == Get(task[i].result)

\* the executions of execute_plugin and execute_plugin_async that returned
PluginDone == {i \in Done : task[i].fn \in PluginFns}

\* C1: while execute_plugin_batch (concurrent mode), analyze_batch or
\* extract_metadata_batch runs, the number of single executions admitted
\* and not yet finished never exceeds max_concurrent.
C1_ConcurrencyCeiling == Gated => InFlightCount <= call.max_concurrent

\* the ceiling is reached while another item waits for a slot
C1_Witness ==
    /\ Gated /\ call.phase = "active"
    /\ call.max_concurrent >= 1
    /\ InFlightCount = call.max_concurrent
    /\ \E i \in Tasks : task[i].pc = "pending"

\* C2: when execute_plugin_batch has returned, every item is a key of the
\* mapping and maps to its own result; an item that timed out has status
\* TIMEOUT; an item that did not time out has status SUCCESS or FAILED
\* according to its own process, and its process was never killed.
C2_BatchIsolation ==
    (call.op = "execute_plugin_batch" /\ call.phase = "returned") =>
        \A i \in Tasks :
            /\ task[i].key \in DOMAIN results
            /\ results[task[i].key] = Result(i)
            /\ task[i].outcome = "timeout" => results[task[i].key].status = TIMEOUT
            /\ task[i].outcome # "timeout" =>
                  /\ results[task[i].key].status \in {SUCCESS, FAILED}
                  /\ task[i].outcome = "exited" =>
                        (results[task[i].key].status = SUCCESS <=> task[i].exit_code = 0)
                  /\ task[i].proc \notin {"signalled", "terminated"}

\* a returned concurrent batch in which one item timed out and was killed
\* while another one exited and has its own SUCCESS or FAILED result
C2_Witness ==
    /\ call.op = "execute_plugin_batch" /\ call.phase = "returned" /\ call.concurrent
    /\ \E i, j \in Tasks :
          /\ task[i].outcome = "timeout" /\ results[task[i].key].status = TIMEOUT
          /\ task[j].outcome = "exited" /\ task[j].proc = "exited"
          /\ results[task[j].key].status \in {SUCCESS, FAILED}

\* C3: when a batch call has returned, every item of the batch has returned
\* a result or raised: none is waiting for a slot or in flight.
C3_BatchReturnsAfterAll ==
    (call.op \in BatchOps /\ call.phase = "returned") =>
        \A i \in Tasks : Finished(i)

\* analyze_batch returned after one item raised and another exited
C3_Witness ==
    /\ call.op = "analyze_batch" /\ call.phase = "returned"
    /\ \E i, j \in Tasks :
          /\ task[i].pc = "raised"
          /\ task[j].pc = "done" /\ task[j].outcome = "exited"

\* C4: an execution of execute_plugin or execute_plugin_async never raises;
\* it holds a result exactly when it has returned, the status of the result
\* is SUCCESS, FAILED or TIMEOUT, and a returned result never changes.
C4_State ==
    \A i \in Tasks : task[i].fn \in PluginFns =>
        /\ task[i].pc # "raised"
        /\ IsSome(task[i].result) <=> task[i].pc = "done"
        /\ task[i].pc = "done" => Result(i).status \in {SUCCESS, FAILED, TIMEOUT}

C4_Stable ==
    \A i \in Tasks : (task[i].fn \in PluginFns /\ task[i].pc = "done") =>
        (i \in DOMAIN task' /\ task'[i].result = task[i].result)

C4_OneTerminalStatus == [](C4_State) /\ [][C4_Stable]_vars

\* execute_plugin returned FAILED for a process that could not be launched
C4_Witness ==
    /\ call.op = "execute_plugin" /\ call.phase = "returned"
    /\ task[1].outcome = "launch_failed" /\ Result(1).status = FAILED

\* C5: every result with status SUCCESS has parsed_data present and
\* error_message absent.
C5_SuccessHasData ==
    \A i \in PluginDone : Result(i).status = SUCCESS =>
        /\ IsSome(Result(i).parsed_data)
        /\ Result(i).error_message = None

\* C6: every result with status TIMEOUT has parsed_data absent, row_count 0,
\* returncode -1 and execution_time_seconds equal to the configured timeout.
C6_TimeoutShape ==
    \A i \in PluginDone : Result(i).status = TIMEOUT =>
        /\ Result(i).parsed_data = None
        /\ Result(i).row_count = 0
        /\ Result(i).returncode = -1
        /\ Result(i).execution_time_seconds = TimeoutSeconds

\* a TIMEOUT result while the output file exists and holds a valid line
C6_Witness ==
    \E i \in PluginDone :
        /\ Result(i).status = TIMEOUT
        /\ files[OutputFile(task[i].key)] = OneRecord

\* C7: every result with status FAILED has error_message present.
C7_FailedHasMessage ==
    \A i \in PluginDone : Result(i).status = FAILED => IsSome(Result(i).error_message)

\* a FAILED result of a process that exited non-zero with an empty stderr
C7_Witness ==
    \E i \in PluginDone :
        /\ Result(i).status = FAILED
        /\ task[i].outcome = "exited" /\ task[i].exit_code # 0
        /\ Result(i).stderr = None
        /\ Result(i).error_message = Some(UnknownError)

RecoveringFns == PluginFns \cup {"analyze_file", "extract_metadata"}

\* the result res of function fn reports a failure / a timeout
ReportsFailure(fn, res) ==
    IF fn \in PluginFns THEN res.status = FAILED ELSE ~res.success
ReportsTimeout(fn, res) ==
    IF fn \in PluginFns THEN res.status = TIMEOUT ELSE ~res.success

\* C8: in execute_plugin, execute_plugin_async, analyze_file and
\* extract_metadata, a launch failure, a non-zero exit and a timeout never
\* raise: each ends in a returned result that reports the failure.
C8_FailuresAreResults ==
    \A i \in Tasks :
        (task[i].fn \in RecoveringFns
            /\ task[i].outcome \in {"launch_failed", "exited", "timeout"}) =>
        /\ task[i].pc \in {"killing", "done"}
        /\ task[i].pc = "done" =>
              /\ IsSome(task[i].result)
              /\ task[i].outcome = "launch_failed" => ReportsFailure(task[i].fn, Result(i))
              /\ task[i].outcome = "timeout" => ReportsTimeout(task[i].fn, Result(i))
              /\ (task[i].outcome = "exited" /\ task[i].exit_code # 0) =>
                    ReportsFailure(task[i].fn, Result(i))

\* analyze_file returned success = false for a scanner that could not be
\* launched
C8_Witness ==
    /\ call.op = "analyze_file" /\ call.phase = "returned"
    /\ task[1].outcome = "launch_failed" /\ ~Result(1).success

\* C9: when execute_plugin or execute_plugin_async has returned a TIMEOUT
\* result, the process it launched has terminated.
C9_TimeoutProcessReaped ==
    \A i \in PluginDone : Result(i).status = TIMEOUT => task[i].proc = "terminated"

\* execute_plugin_async returned TIMEOUT
C9_Witness ==
    /\ call.op = "execute_plugin_async" /\ call.phase = "returned"
    /\ Result(1).status = TIMEOUT /\ task[1].proc = "terminated"

\* C10: when analyze_file, extract_metadata or detect_profile has returned
\* because its timeout expired, the process it launched is not running.
C10_TimeoutProcessTerminated ==
    \A i \in Done :
        (task[i].fn \in {"analyze_file", "extract_metadata", "detect_profile"}
            /\ task[i].outcome = "timeout") =>
        task[i].proc # "running"

\* C11: a batch call never raises; when it has returned, the mapping holds
\* exactly the items that returned, each with its own result: the key of an
\* item that raised is absent, and no item was executed a second time.
C11_RaisedItemsDropped ==
    /\ call.op \in BatchOps => call.phase # "raised"
    /\ (call.op \in BatchOps /\ call.phase = "returned") =>
          /\ DOMAIN results = {task[i].key : i \in Done}
          /\ \A i \in Tasks :
                /\ Cardinality({j \in Tasks : task[j].key = task[i].key}) = 1
                /\ task[i].pc = "raised" => task[i].key \notin DOMAIN results
                /\ task[i].pc = "done" => results[task[i].key] = Result(i)

\* analyze_batch returned a mapping without the item that raised and with
\* the result of the item that returned
C11_Witness ==
    /\ call.op = "analyze_batch" /\ call.phase = "returned"
    /\ \E i, j \in Tasks :
          /\ task[i].pc = "raised" /\ task[i].key \notin DOMAIN results
          /\ task[j].pc = "done" /\ task[j].outcome = "exited"
          /\ results[task[j].key] = Result(j)

\* C12: process_artifact never raises; when it has returned, a branch that
\* raised is represented by a record holding only an error text, and a
\* branch that returned by its normalized result.
C12_PartialResults ==
    /\ call.op = "process_artifact" => call.phase # "raised"
    /\ (call.op = "process_artifact" /\ call.phase = "returned") =>
          \A i \in Tasks :
              LET entry == results[BranchName(task[i].fn)]
              IN  /\ IsSome(entry)
                  /\ task[i].pc = "raised" => DOMAIN Get(entry) = {"error"}
                  /\ task[i].pc = "done" =>
                        Get(entry) = normalize_result(task[i].fn, Result(i))

\* both branches ran; binwalk raised, exiftool exited with code 0
C12_Witness ==
    /\ call.op = "process_artifact" /\ call.phase = "returned"
    /\ Len(task) = 2
    /\ task[1].pc = "raised" /\ DOMAIN Get(results.binwalk) = {"error"}
    /\ task[2].pc = "done" /\ task[2].outcome = "exited"
    /\ Get(results.exiftool).success

\* the execution of item i was asked of a disabled tool
Disabled(i) ==
    \/ task[i].fn = "analyze_file" /\ ~settings.BINWALK_ENABLED
    \/ task[i].fn = "extract_metadata" /\ ~settings.EXIFTOOL_ENABLED

\* C13: an execution of a disabled tool that has started has returned a
\* failed result with the message "<tool> is disabled" and an execution
\* time of 0, without starting a process or creating a directory.
C13_DisabledShortCircuit ==
    \A i \in Tasks :
        (Disabled(i) /\ task[i].pc # "pending") =>
            /\ task[i].pc = "done"
            /\ ~Result(i).success
            /\ Result(i).error_message =
                  Some(IF task[i].fn = "analyze_file" THEN BinwalkDisabled
                       ELSE ExiftoolDisabled)
            /\ Result(i).execution_time_seconds = 0
            /\ task[i].proc = "none"
            /\ task[i].mkdir = "none"

\* analyze_file returned for a disabled binwalk
C13_Witness ==
    /\ call.op = "analyze_file" /\ call.phase = "returned"
    /\ ~settings.BINWALK_ENABLED
    /\ task[1].outcome = "disabled" /\ task[1].proc = "none"

\* the installation checks that found the tool missing, failing or silent
FailedChecks ==
    {k \in DOMAIN call.checks : call.checks[k][2] \in {"missing", "nonzero", "timeout"}}

\* C14: a constructor whose installation check finds the binary missing,
\* exiting non-zero or not answering in time raises RuntimeError, in all
\* three analyzers; an operation runs only on an object all of whose
\* checks succeeded.
C14_ConstructionFailsUniformly ==
    /\ FailedChecks # {} =>
          /\ call.op = "__init__" /\ call.phase = "raised"
          /\ call.error = Some("RuntimeError")
    /\ call.op \notin {"none", "__init__"} =>
          /\ call.self # "ProfileDetector" => call.checks # <<>>
          /\ \A k \in DOMAIN call.checks : call.checks[k][2] = "ok"

\* the fields of a PluginExecutionResult the two variants are compared on
Observable(r) == <<r.status, r.parsed_data, r.row_count, r.error_message, r.returncode>>

\* the result fn returns for what execution i met: the exit code, stderr
\* and timeout behaviour of its process and the present output file
PluginResultFor(fn, i) ==
    LET t == task[i]
    IN  IF t.outcome = "exited"
        THEN (IF fn = "execute_plugin"
              THEN execute_plugin_completed(t.key, 0, 0, t.exit_code, t.tool.stderr, files)
              ELSE execute_plugin_async_completed(t.key, 0, 0, t.exit_code,
                                                  t.tool.stderr, files))
        ELSE IF t.outcome = "timeout"
        THEN (IF fn = "execute_plugin"
              THEN execute_plugin_timeout(t.key, 0, 0, TimeoutSeconds, t.tool.stderr, files)
              ELSE execute_plugin_async_timeout(t.key, 0, 0, TimeoutSeconds,
                                                t.tool.stderr, files))
        ELSE execute_plugin_exception(t.key, 0, 0, LaunchError)

\* the execution a direct call that returned has just finished
Latest == Len(task)

\* C15: when execute_plugin or execute_plugin_async has returned, the other
\* variant returns the same status, parsed_data, row_count, error_message
\* and returncode for the same process behaviour and output file.
C15_AsyncEqualsSync ==
    (call.op \in PluginFns /\ call.phase = "returned") =>
        /\ Observable(Result(Latest)) = Observable(PluginResultFor(task[Latest].fn, Latest))
        /\ Observable(PluginResultFor("execute_plugin", Latest))
              = Observable(PluginResultFor("execute_plugin_async", Latest))

\* the records of the lines that decode as JSON, in file order
RECURSIVE DecodedRecords(_)
DecodedRecords(lines) ==
    IF lines = <<>> THEN <<>>
    ELSE (IF JsonDecodable(Head(lines)) THEN <<JsonLoads(Head(lines))>> ELSE <<>>)
         \o DecodedRecords(Tail(lines))

\* C16: when a plugin execution has parsed an existing output file, its
\* parsed_data is the sequence of the records of the decodable lines of
\* the file, in file order, and row_count is their number.
C16_ParseKeepsDecodableLines ==
    (call.op \in PluginFns /\ call.phase = "returned"
        /\ task[Latest].outcome = "exited"
        /\ files[OutputFile(task[Latest].key)].exists) =>
        LET records == DecodedRecords(files[OutputFile(task[Latest].key)].lines)
        IN  /\ Result(Latest).parsed_data = Some(records)
            /\ Result(Latest).row_count = Len(records)

\* C17: the stderr field of every result of execute_plugin and
\* execute_plugin_async is absent or at most 500 characters long.
C17_StderrBounded ==
    \A i \in PluginDone :
        IsSome(Result(i).stderr) => Len(Get(Result(i).stderr)) <= ErrorMessageLimit

ExifExitedZero ==
    {i \in Done : task[i].fn = "extract_metadata" /\ task[i].outcome = "exited"
                     /\ task[i].exit_code = 0}

\* the JSON value on the standard output of execution i
ExifJson(i) == JsonLoads(DecodeReplace(task[i].tool.stdout))
ExifIsJson(i) == JsonDecodable(DecodeReplace(task[i].tool.stdout))
ExifIsArray(i) ==
    ExifIsJson(i) /\ ExifJson(i).type = "array" /\ ExifJson(i).items # <<>>

\* an exit with code 0 and a standard output that is not JSON gives success
\* with empty metadata, no file_type and no error_message
ExifMalformedIsEmpty(i) ==
    ~ExifIsJson(i) =>
        /\ Result(i).success
        /\ Result(i).metadata = JObj(<<>>)
        /\ Result(i).file_type = None
        /\ Result(i).error_message = None

\* C19: after an exit with code 0, a standard output that is not JSON gives
\* success with empty metadata, and the first element of a non-empty JSON
\* array becomes the metadata.
C19_FirstElementOnly ==
    \A i \in ExifExitedZero :
        /\ ExifMalformedIsEmpty(i)
        /\ ExifIsArray(i) => Result(i).metadata = ExifJson(i).items[1]

\* C19 amended: the first element of a non-empty JSON array becomes the
\* metadata when it is an object; when it is not, the result is a failure
\* with empty metadata and an error_message.
C19_FirstObjectOnly ==
    \A i \in ExifExitedZero :
        /\ ExifMalformedIsEmpty(i)
        /\ ExifIsArray(i) =>
              IF ExifJson(i).items[1].type = "object"
              THEN /\ Result(i).success
                   /\ Result(i).metadata = ExifJson(i).items[1]
              ELSE /\ ~Result(i).success
                   /\ Result(i).metadata = JObj(<<>>)
                   /\ IsSome(Result(i).error_message)

\* extract_metadata returned for an array of two objects
C19_Witness ==
    /\ call.op = "extract_metadata" /\ call.phase = "returned"
    /\ 1 \in ExifExitedZero
    /\ ExifIsArray(1) /\ Len(ExifJson(1).items) = 2
    /\ Result(1).metadata = ExifJson(1).items[1]

\* the status of a result of fn
StatusOf(fn, res) == IF fn \in PluginFns THEN res.status ELSE res.success

\* C20: when a direct call of execute_plugin, analyze_file or
\* extract_metadata is repeated on the same input and the tool behaves as in
\* the first run, the second run returns, with the status of the first.
C20_SameStatusOnRerun ==
    (call.op \in RepeatedOps /\ Len(task) = 2 /\ Finished(2)) =>
        /\ task[2].pc = "done"
        /\ StatusOf(call.op, Result(2)) = StatusOf(call.op, Result(1))

\* execute_plugin ran twice with success, the first run having written the
\* output file; analyze_file ran twice in the directory of the first run
C20_Witness ==
    /\ Len(task) = 2 /\ task[2].pc = "done"
    /\ \/ /\ call.op = "execute_plugin"
          /\ IsSome(task[1].tool.w)
          /\ Result(1).status = SUCCESS /\ Result(2).status = SUCCESS
       \/ /\ call.op = "analyze_file"
          /\ task[1].mkdir = "created" /\ task[2].mkdir = "created"
          /\ IsSome(task[1].tool.w)

\* C21: within one output directory, two executions of plugins with
\* different names never have the same output file path, so no two items of
\* a batch read or write the same output file.
C21_DistinctOutputFiles ==
    \A i, j \in Tasks :
        (task[i].fn \in PluginFns /\ task[j].fn \in PluginFns
            /\ task[i].key # task[j].key)
        => WritePath(task[i].fn, task[i].key) # WritePath(task[j].fn, task[j].key)

\* C22: a result's output_json_path and parsed_data come from output this
\* invocation wrote: when its process wrote no output file, both are absent,
\* even if an output file of an earlier run is present.
C22_OwnOutputOnly ==
    \A i \in PluginDone :
        (task[i].outcome = "exited" /\ task[i].tool.w = None) =>
            /\ Result(i).output_json_path = None
            /\ Result(i).parsed_data = None

\* C23: the timeout of a batch item is measured from the launch of its own
\* subprocess: an item becomes a timeout only when its own process has run
\* for the configured timeout, however long it waited for a slot, and a
\* batch ends only when every item has finished, never by a deadline.
C23_Step ==
    call.op \in BatchOps =>
        /\ \A i \in Tasks :
              (task[i].outcome # "timeout" /\ task'[i].outcome = "timeout") =>
                  /\ task[i].pc = "communicating"
                  /\ now - task[i].launched_at >= TimeoutSeconds
        /\ (call.phase = "active" /\ call'.phase # "active") =>
              \A i \in Tasks : Finished(i) /\ task'[i] = task[i]

C23_OwnTimer == [][C23_Step]_vars

\* with one slot, an item that waited for the whole timeout of another item
\* has just been launched, and its own timer has not expired
C23_Witness ==
    /\ Gated /\ call.op = "execute_plugin_batch" /\ call.max_concurrent = 1
    /\ \E i, j \in Tasks :
          /\ task[j].pc = "done" /\ task[j].outcome = "timeout"
          /\ task[i].pc = "communicating"
          /\ task[i].launched_at >= TimeoutSeconds
          /\ now - task[i].launched_at < TimeoutSeconds

\* C24: every finding returned by _parse_binwalk_output has a non-negative
\* offset, whatever the scanner printed.
C24_OffsetsNonNegative ==
    \A i \in Done : task[i].fn = "analyze_file" =>
        \A k \in 1..Len(Result(i).signatures_found) :
            Result(i).signatures_found[k].offset >= 0

\* C25: when two execute_plugin_batch calls on the same Volatility3Runner
\* overlap, each with max_concurrent = m, the number of single executions
\* in flight across both calls never exceeds m.
C25_InstanceCeiling ==
    (call.op = "execute_plugin_batch" /\ call.concurrent) =>
        InFlightCount + (IF call.overlap.pc = "entered" THEN 1 ELSE 0)
            <= call.max_concurrent

\* C26: a batch with max_concurrent >= 1 whose executions all finish
\* eventually returns with every item admitted and finished; every slot
\* taken is given back on every outcome, also when the execution raises.
C26_NoLeak == Gated => sem + InFlightCount = call.max_concurrent

C26_Active ==
    /\ call.op \in BatchOps /\ call.phase = "active"
    /\ call.concurrent => call.max_concurrent >= 1

C26_Returned ==
    /\ call.phase = "returned"
    /\ \A i \in Tasks : Finished(i) /\ task[i].outcome # "none"

C26_BatchTerminates == [](C26_NoLeak) /\ (C26_Active ~> C26_Returned)

\* analyze_batch with one slot returned after the item holding the slot
\* raised and the item waiting behind it was admitted and exited
C26_Witness ==
    /\ call.op = "analyze_batch" /\ call.phase = "returned" /\ call.max_concurrent = 1
    /\ \E i, j \in Tasks :
          /\ task[i].pc = "raised"
          /\ task[j].pc = "done" /\ task[j].outcome = "exited"

\* C27: the keys of the mapping execute_plugin_batch returned are exactly
\* the plugin names submitted, in concurrent and in sequential mode: a
\* launch failure or another exception is a FAILED result, never a missing
\* name.
C27_KeySetComplete ==
    (call.op = "execute_plugin_batch" /\ call.phase = "returned") =>
        /\ DOMAIN results = {task[i].key : i \in Tasks}
        /\ \A i \in Tasks :
              task[i].outcome = "launch_failed" => results[task[i].key].status = FAILED

\* a sequential batch of two names returned after one launch failed
C27_Witness ==
    /\ call.op = "execute_plugin_batch" /\ call.phase = "returned" /\ ~call.concurrent
    /\ Len(task) = 2 /\ Cardinality(DOMAIN results) = 2
    /\ \E i, j \in Tasks :
          /\ task[i].outcome = "launch_failed"
          /\ task[j].outcome = "exited"

\* C28: process_artifact returns only when every launched branch has
\* finished; whatever the order of completion, 'binwalk' holds the outcome
\* of the signature scanner and 'exiftool' that of the metadata extractor;
\* a branch that is not requested or whose tool is disabled is never
\* launched, and its entry stays null.
C28_Launched(fn) == \E i \in Tasks : task[i].fn = fn

C28_BranchEntries ==
    call.op = "process_artifact" =>
        /\ C28_Launched("analyze_file") <=>
              (call.run_binwalk /\ settings.BINWALK_ENABLED)
        /\ C28_Launched("extract_metadata") <=>
              (call.run_exiftool /\ settings.EXIFTOOL_ENABLED)
        /\ call.phase = "returned" =>
              /\ \A i \in Tasks : Finished(i)
              /\ ~C28_Launched("analyze_file") => results.binwalk = None
              /\ ~C28_Launched("extract_metadata") => results.exiftool = None
              /\ \A i \in Done :
                    IF task[i].fn = "analyze_file"
                    THEN /\ IsSome(results.binwalk)
                         /\ "signatures_found" \in DOMAIN Get(results.binwalk)
                         /\ Get(results.binwalk).signatures_found
                               = Result(i).signatures_found
                         /\ Get(results.binwalk).success = Result(i).success
                         /\ Get(results.binwalk).error = Result(i).error_message
                    ELSE /\ IsSome(results.exiftool)
                         /\ "metadata" \in DOMAIN Get(results.exiftool)
                         /\ Get(results.exiftool).metadata = Result(i).metadata
                         /\ Get(results.exiftool).success = Result(i).success
                         /\ Get(results.exiftool).error = Result(i).error_message

\* both branches ran and the metadata extractor, launched second, finished
\* first: it exited at once while the signature scanner ran into its timeout
C28_Witness ==
    /\ call.op = "process_artifact" /\ call.phase = "returned"
    /\ \E i, j \in Tasks :
          /\ task[i].fn = "analyze_file" /\ task[i].outcome = "timeout"
          /\ task[j].fn = "extract_metadata" /\ task[j].outcome = "exited"
          /\ Result(j).execution_time_seconds = 0
          /\ Get(results.exiftool).success
          /\ Get(results.binwalk).execution_time_seconds = TimeoutSeconds

\* C29: the items of analyze_batch with different file paths have different
\* extraction directories, so the extracted_files of one input never hold
\* a file extracted from another input.
C29_DistinctExtractionDirs ==
    call.op = "analyze_batch" =>
        \A i, j \in Tasks :
            task[i].key # task[j].key => ExtractDir(task[i].key) # ExtractDir(task[j].key)

\* C30: whenever upload_memory_image ends with an error response, no file
\* remains at the destination path.
C30_NoFileAfterError ==
    (call.op = "upload_memory_image" /\ call.phase = "raised") =>
        ~files[Destination(call.file_path)].exists

\* C31: _extract_error_message returns 'Unknown error' for an empty or absent
\* stderr; the first 500 characters of the whole stderr when a known
\* diagnostic substring occurs anywhere in it; otherwise the first non-blank
\* line, stripped and cut to 500 characters; and 'Execution failed' when no
\* line is non-blank.  The message is never empty and never longer than 500
\* characters.
C31_Blank(line) == \A k \in 1..Len(line) : IsSpace(line[k])

C31_Message(stderr) ==
    LET pieces == SplitLines(stderr)
        nonblank == {k \in 1..Len(pieces) : ~C31_Blank(pieces[k])}
        first == CHOOSE k \in nonblank : \A j \in nonblank : k <= j
    IN  IF stderr = <<>> THEN UnknownError
        ELSE IF \E p \in DOMAIN error_patterns : Contains(stderr, error_patterns[p])
        THEN [k \in 1..(IF Len(stderr) > 500 THEN 500 ELSE Len(stderr)) |-> stderr[k]]
        ELSE IF nonblank = {} THEN ExecutionFailed
        ELSE LET line == Strip(pieces[first])
             IN  [k \in 1..(IF Len(line) > 500 THEN 500 ELSE Len(line)) |-> line[k]]

C31_ErrorMessage ==
    \A i \in PluginDone :
        (task[i].outcome = "exited" /\ Result(i).status = FAILED) =>
            LET stderr == IF IsSome(Result(i).stderr) THEN Get(Result(i).stderr) ELSE <<>>
                message == Get(Result(i).error_message)
            IN  /\ message = C31_Message(stderr)
                /\ Len(message) \in 1..500

\* a failed execution whose stderr is longer than 500 characters and holds a
\* diagnostic substring on its second line: the message is the first 500
\* characters of the whole text, not its first line
C31_Witness ==
    \E i \in PluginDone :
        /\ task[i].outcome = "exited" /\ Result(i).status = FAILED
        /\ IsSome(Result(i).stderr)
        /\ Len(Get(Result(i).stderr)) > 500
        /\ Contains(Get(Result(i).stderr), error_patterns[2])
        /\ Len(Get(Result(i).error_message)) = 500
        /\ Get(Result(i).error_message)[2] = "\n"

\* C32: _parse_banners_output classifies the lower-cased text by ordered
\* keyword membership: Windows if it contains 'windows' or 'microsoft';
\* otherwise Linux if it contains 'linux'; otherwise macOS if it contains
\* 'darwin' or 'macos'; otherwise Unknown.  The earlier category wins
\* wherever the keywords stand in the text.
C32_Has(i, keyword) == Contains(Lower(DecodeReplace(task[i].tool.stdout)), keyword)

C32_Windows(i) ==
    \/ C32_Has(i, <<"w", "i", "n", "d", "o", "w", "s">>)
    \/ C32_Has(i, <<"m", "i", "c", "r", "o", "s", "o", "f", "t">>)

C32_Linux(i) == C32_Has(i, <<"l", "i", "n", "u", "x">>)

C32_MacOS(i) ==
    \/ C32_Has(i, <<"d", "a", "r", "w", "i", "n">>)
    \/ C32_Has(i, <<"m", "a", "c", "o", "s">>)

C32_OrderedKeywords ==
    \A i \in Done :
        (task[i].fn = "detect_profile" /\ task[i].outcome = "exited") =>
            /\ Result(i).os = "Windows" <=> C32_Windows(i)
            /\ Result(i).os = "Linux" <=> (~C32_Windows(i) /\ C32_Linux(i))
            /\ Result(i).os = "macOS"
                  <=> (~C32_Windows(i) /\ ~C32_Linux(i) /\ C32_MacOS(i))
            /\ Result(i).os = "Unknown"
                  <=> (~C32_Windows(i) /\ ~C32_Linux(i) /\ ~C32_MacOS(i))

\* the banner 'macOS on linux' holds keywords of two categories, the macOS
\* one first in the text, and is classified Linux
C32_Witness ==
    \E i \in Done :
        /\ task[i].fn = "detect_profile" /\ task[i].outcome = "exited"
        /\ C32_Linux(i) /\ C32_MacOS(i) /\ ~C32_Windows(i)
        /\ task[i].tool.stdout[1] = "m"
        /\ Result(i).os = "Linux"

\* C33: _parse_binwalk_output returns, in the order of the input lines and
\* without re-sorting, exactly one finding {offset, offset_hex, description}
\* for each line that is non-blank, is no header or separator line, has at
\* least three whitespace-separated fields and whose first field is an
\* integer; every other line contributes nothing and never aborts the parse.
C33_Lines(i) == SplitLines(DecodeReplace(task[i].tool.stdout))

C33_Fields(line) == SplitWs(Strip(line), 2)

C33_Qualifies(line) ==
    /\ Strip(line) # <<>>
    /\ ~StartsWith(Strip(line), <<"D", "E", "C", "I", "M", "A", "L">>)
    /\ ~StartsWith(Strip(line), <<"-", "-", "-">>)
    /\ Len(C33_Fields(line)) >= 3
    /\ PyInt(C33_Fields(line)[1]).ok

\* analyze_file returned what the parser gave: the process exited and
\* building the result did not end in the exception handler (stderr is
\* decoded only after a non-zero exit)
C33_Parsed(i) ==
    /\ task[i].fn = "analyze_file" /\ task[i].outcome = "exited"
    /\ \/ task[i].exit_code = 0
       \/ \A k \in 1..Len(task[i].tool.stderr) : task[i].tool.stderr[k] # "\\xff"

C33_FindingsInLineOrder ==
    \A i \in Done :
        C33_Parsed(i) =>
            LET lines == C33_Lines(i)
                found == Result(i).signatures_found
                kept == {k \in 1..Len(lines) : C33_Qualifies(lines[k])}
                \* the line the n-th finding comes from
                lineOf(n) == CHOOSE k \in kept :
                                Cardinality({j \in kept : j < k}) = n - 1
            IN  /\ Len(found) = Cardinality(kept)
                /\ \A n \in 1..Len(found) :
                      /\ found[n].offset = PyInt(C33_Fields(lines[lineOf(n)])[1]).val
                      /\ found[n].offset_hex = C33_Fields(lines[lineOf(n)])[2]
                      /\ found[n].description = C33_Fields(lines[lineOf(n)])[3]

\* the scanner printed a header, a separator, a finding at offset 41, two
\* lines that are no findings, and a finding at offset 0: the result holds
\* the two findings, the one at offset 41 first
C33_Witness ==
    \E i \in Done :
        /\ C33_Parsed(i)
        /\ Len(C33_Lines(i)) = 7
        /\ Len(Result(i).signatures_found) = 2
        /\ Result(i).signatures_found[1].offset = 41
        /\ Result(i).signatures_found[2].offset = 0

\* C34: when the process exits with a non-zero code and its output file
\* holds K decodable lines, execute_plugin returns FAILED with parsed_data
\* present and holding those K records, and row_count K.
C34_PartialOutputKept ==
    (call.op = "execute_plugin" /\ call.phase = "returned"
        /\ task[Latest].outcome = "exited" /\ task[Latest].exit_code # 0
        /\ files[OutputFile(task[Latest].key)].exists) =>
        LET records == DecodedRecords(files[OutputFile(task[Latest].key)].lines)
        IN  /\ Result(Latest).status = FAILED
            /\ Result(Latest).parsed_data = Some(records)
            /\ Result(Latest).row_count = Len(records)

\* C35: when the process exits 0 and its output file exists but contains no
\* lines, execute_plugin returns SUCCESS with a present, empty parsed_data
\* and row_count 0, as it does for an output file whose lines are all blank
\* or all undecodable.
C35_EmptyOutputSucceeds ==
    (call.op = "execute_plugin" /\ call.phase = "returned"
        /\ task[Latest].outcome = "exited" /\ task[Latest].exit_code = 0
        /\ files[OutputFile(task[Latest].key)].exists
        /\ files[OutputFile(task[Latest].key)].utf8
        /\ DecodedRecords(files[OutputFile(task[Latest].key)].lines) = <<>>) =>
        /\ Result(Latest).status = SUCCESS
        /\ Result(Latest).parsed_data = Some(<<>>)
        /\ Result(Latest).row_count = 0

\* C36: analyze_file and extract_metadata report a timeout through a status
\* value distinct from the one they use for a non-zero exit or a launch
\* failure.
C36_DistinctTimeoutStatus ==
    \A i, j \in Done :
        (/\ task[i].fn \in {"analyze_file", "extract_metadata"}
         /\ task[j].fn = task[i].fn
         /\ task[i].outcome = "timeout"
         /\ \/ task[j].outcome = "launch_failed"
            \/ task[j].outcome = "exited" /\ task[j].exit_code # 0) =>
            Result(i).success # Result(j).success

\* C37: installation verification does not depend on the enabled flags:
\* the constructor of BinwalkAnalyzer or ExiftoolAnalyzer launches the
\* verification of its tool also when the tool is disabled, and fails if the
\* binary is missing; so the constructor of ArtifactProcessor fails whenever
\* a binary it verifies is missing, and constructs the object only after both
\* verifications have run and found their binary.
C37_ConstructionFailed == call.op = "__init__" /\ call.phase = "raised"

C37_Missing(k) == call.checks[k][2] = "missing"

C37_VerificationIgnoresFlags ==
    /\ call.self \in {"BinwalkAnalyzer", "ExiftoolAnalyzer"} =>
          /\ Len(call.checks) = 1
          /\ call.checks[1][1] = call.self
          /\ C37_Missing(1) => C37_ConstructionFailed
    /\ call.self = "ArtifactProcessor" =>
          /\ Len(call.checks) >= 1
          /\ call.checks[1][1] = "BinwalkAnalyzer"
          /\ (\E k \in 1..Len(call.checks) : C37_Missing(k)) => C37_ConstructionFailed
          /\ ~C37_ConstructionFailed =>
                /\ Len(call.checks) = 2
                /\ call.checks[2][1] = "ExiftoolAnalyzer"

\* the signature scanner is disabled and its binary is missing, the metadata
\* extractor is enabled: the construction of ArtifactProcessor failed in the
\* verification of the scanner
C37_Witness ==
    /\ ~settings.BINWALK_ENABLED /\ settings.EXIFTOOL_ENABLED
    /\ call.self = "ArtifactProcessor"
    /\ C37_ConstructionFailed
    /\ call.checks = << <<"BinwalkAnalyzer", "missing">> >>
    /\ call.error = Some("RuntimeError")
====
